---- MODULE Spec2Model ----
(***************************************************************************)
(* State-machine model of the resumable crawl loops of the HLTV scrapers:  *)
(*   scripts/hltv_enhanced_scraper.py   (snapshot mode and threshold mode) *)
(*   scripts/hltv_update_scraper.py     (threshold mode, unbounded count)  *)
(*   scripts/hltv_largescale_scraper.py (batches of threshold-mode crawls) *)
(* together with the checkpoint file, the pause sentinel and the page      *)
(* fetcher with its retry/backoff loop and the per-match SIGALRM timeout.  *)
(*                                                                         *)
(* Environment assumptions of the model: writes to the local output        *)
(* directory succeed (the "except" branches that only report a failed      *)
(* local write are not taken); the remote site, the snapshot contents, the *)
(* operator (pause file) and the alarm are nondeterministic.               *)
(***************************************************************************)
EXTENDS Integers, Sequences, FiniteSets, TLC

(***************************************************************************)
(* Bounds of the model (not program constants).                            *)
(***************************************************************************)
MaxSnapshotLen == 3
MaxNumMatches == 3
MaxRuns == 2
MaxListing == 3
MaxPublished == 1
MaxBatches == 2
SitePageSize == 2
MaxPlayers == 2
MaxRoster == 6
MaxScoreLen == 5
MaxExistingRows == 2
MaxNewMatches == 2
MaxCellLen == 4
MaxCheckpointFiles == 2
MaxCheckpointRows == 2

(***************************************************************************)
(* Program constants.                                                      *)
(***************************************************************************)
ProgressEvery == 10
CheckpointEvery == 100
FinalCsvAt == 10000
OffsetStep == 100
matches_per_season == 1750
total_seasons == 8
total_matches == matches_per_season * total_seasons
batch_size == 100

\* --total_matches on the command line: a small request, or the default
TotalMatchesArgs == {1, total_matches}
max_retries == 3
RosterSlots == 5
match_timeout == 45

\* Python's None in an integer slot (identifiers and counters are naturals)
None == 0 - 1
\* a file of the output directory: NoFile, or <<content>>
NoFile == <<>>
FileOf(content) == <<content>>
NoReason == "running"

(***************************************************************************)
(* Text: a sequence of one-character strings.  json.dump / json.load of    *)
(* the integers and None stored in the progress files.                     *)
(***************************************************************************)
DigitChar == <<"0", "1", "2", "3", "4", "5", "6", "7", "8", "9">>

IsDigit(c) == \E d \in 1..10 : DigitChar[d] = c

DigitVal(c) == (CHOOSE d \in 1..10 : DigitChar[d] = c) - 1

RECURSIVE NatToText(_)
NatToText(n) ==
    IF n < 10 THEN <<DigitChar[n + 1]>>
    ELSE NatToText(n \div 10) \o <<DigitChar[(n % 10) + 1]>>

RECURSIVE TextToNat(_)
TextToNat(t) ==
    IF Len(t) = 0 THEN 0
    ELSE 10 * TextToNat(SubSeq(t, 1, Len(t) - 1)) + DigitVal(t[Len(t)])

NullText == <<"n", "u", "l", "l">>

json_dump(v) ==
    IF v = None THEN NullText
    ELSE IF v < 0 THEN <<"-">> \o NatToText(0 - v)
    ELSE NatToText(v)

json_load(t) ==
    IF t = NullText THEN None
    ELSE IF t[1] = "-" THEN 0 - TextToNat(SubSeq(t, 2, Len(t)))
    ELSE TextToNat(t)

\* dict.get(key, default) on a decoded JSON object (a function from keys to texts)
dict_get(obj, key, default) ==
    IF key \in DOMAIN obj THEN json_load(obj[key]) ELSE default

IsoTime == <<"t">>

(***************************************************************************)
(* Python lists of integers (record identifiers, positions) are kept       *)
(* run-length encoded: a sequence of <<lo, hi>> pairs, each standing for   *)
(* the consecutive elements lo, lo+1, ..., hi.  The encoding is lossless.  *)
(***************************************************************************)
EmptyList == <<>>

ListAppend(l, x) ==
    IF Len(l) > 0 /\ l[Len(l)][2] + 1 = x
    THEN [l EXCEPT ![Len(l)] = <<l[Len(l)][1], x>>]
    ELSE Append(l, <<x, x>>)

RECURSIVE ListLen(_)
ListLen(l) ==
    IF Len(l) = 0 THEN 0
    ELSE (l[1][2] - l[1][1] + 1) + ListLen(Tail(l))

ListElems(l) == UNION { l[i][1]..l[i][2] : i \in 1..Len(l) }

ListLast(l) == l[Len(l)][2]

\* number of occurrences of x in the list
ListCount(l, x) == Cardinality({ i \in 1..Len(l) : l[i][1] <= x /\ x <= l[i][2] })

\* the list is strictly increasing
ListStrictlyIncreasing(l) ==
    \A i \in 1..Len(l) :
        l[i][1] <= l[i][2] /\ (i > 1 => l[i - 1][2] < l[i][1])

\* min(...) of a non-empty list
ListMin(l) ==
    CHOOSE m \in { l[i][1] : i \in 1..Len(l) } :
        \A i \in 1..Len(l) : m <= l[i][1]

RECURSIVE ListAppendTimes(_, _, _)
ListAppendTimes(l, x, n) ==
    IF n = 0 THEN l ELSE ListAppendTimes(ListAppend(l, x), x, n - 1)

(***************************************************************************)
(* State.                                                                  *)
(***************************************************************************)
VARIABLES
    program,         \* which script the behaviour runs
    pc,              \* control position of the running process
    runs,            \* processes (scraper instances) started so far
    \* --- the remote site and the operator
    listing,         \* the live results listing, newest first: <<id, score text>>
    published,       \* results the site added since the initial state
    pause_file,      \* scraper_pause.flag exists
    \* --- HLTVEnhancedScraper / HLTVUpdateScraper instance
    snapshot_file,   \* self.snapshot_file is set (snapshot mode)
    snapshot_len,    \* len(self.snapshot_data)
    num_matches,     \* self.num_matches
    target_match_id, \* self.target_match_id
    snapshot_index,  \* self.snapshot_index
    match_counter,   \* self.match_counter
    \* --- locals of the crawl loop
    matches_found,   \* matches_found
    all_matches,     \* all_matches / all_new_matches: the records built (snapshot
                     \* position of each in snapshot mode, match id otherwise)
    page_offset,     \* page_offset
    page_items,      \* items of all_matches_on_page the for loop has yet to visit
    page_matches_processed, \* page_matches_processed (update scraper)
    returned,        \* value returned by the crawl loop (empty while it runs)
    \* --- files of the output directory
    progress_file,   \* scraper_progress.json: NoFile or <<JSON object>>
    intermediate,    \* save_intermediate_data: <<files written, records of the
                     \* newest one>> (every such file of a run extends the last)
    json_files,      \* save_to_json + convert_to_csv: the record lists written
    \* --- history of the current run
    start_index,     \* snapshot_index when the run entered its loop
    taken,           \* snapshot positions taken, in order
    page_requests,   \* units whose match page was requested
    skipped,         \* units taken without building a record
    listing_requests,\* page_offset of every listing page requested
    examined,        \* ids of the listing items handed to extract_match_info
    floor_hit,       \* an examined item had an id <= target_match_id
    saved_args,      \* <<match_counter, snapshot_index>> of the last save_progress
    in_flight,       \* snapshot positions already taken whose unit had not been
                     \* processed yet when save_progress last wrote the file
    exit_reason      \* why the loop of the current run ended

procVars == <<program, pc, runs>>
siteVars == <<listing, published>>
cfgVars == <<snapshot_file, snapshot_len, num_matches, target_match_id>>
pageVars == <<page_offset, page_items, page_matches_processed>>
outVars == <<intermediate, json_files>>
snapHist == <<start_index, taken, skipped>>
listHist == <<listing_requests, examined, floor_hit>>

VARIABLES
    \* --- HLTVLargeScaleScraper.run_largescale_scraping
    resume,            \* the resume argument
    start_match_id,    \* the start_match_id argument
    matches_completed, \* matches_completed
    current_match_id,  \* current_match_id
    batches_completed, \* batches_completed
    progress,          \* the progress dict held in memory
    ls_progress_file,  \* largescale_progress.json: NoFile or <<JSON object>>
    ls_pause_file,     \* largescale_pause.flag exists
    session_batches,   \* batches this call has completed
    seen,              \* identifiers in the results of those batches
    ls_saved_args      \* <<matches_completed, last_match_id, batches_completed>>
                       \* of the last save_progress

lsVars == <<resume, start_match_id, matches_completed, current_match_id,
            batches_completed, progress, ls_progress_file, ls_pause_file,
            session_batches, seen, ls_saved_args>>

VARIABLES
    \* --- one call of process_match_with_timeout / get_page_content
    u_pc,        \* position inside the call
    u_fetch,     \* 1: match page, 2: detailed stats page
    attempt,     \* attempt of the retry loop of get_page_content
    alarm,       \* SIGALRM: "off", "armed", "fired"
    elapsed,     \* seconds slept since signal.alarm(self.match_timeout)
    gpc_log,     \* attempts of the current get_page_content call:
                 \* <<response, sleeps begun>>, a sleep being <<seconds, completed>>
    gpc_result,  \* outcome of the current get_page_content call
    u_result,    \* value returned by process_match_with_timeout
    timed_out    \* the alarm went off during the unit

unitVars == <<u_pc, u_fetch, attempt, alarm, elapsed, gpc_log, gpc_result,
              u_result, timed_out>>

VARIABLES
    \* --- calculate_team_averages (aggregator, update scraper, enhanced scraper)
    players,         \* the players argument
    half_up,         \* binary floating point puts a mean that falls on half a
                     \* hundredth above the half (round() then rounds it up)
    team_averages    \* the dict each copy returned: [aggregator, update, enhanced]

avgVars == <<players, half_up, team_averages>>

VARIABLES
    \* --- convert_match_to_csv_row (update scraper) / convert_match_to_row
    csv_match,       \* the match argument
    update_row,      \* the row convert_match_to_csv_row returned
    converter_row    \* the row convert_match_to_row returned

rowVars == <<csv_match, update_row, converter_row>>

VARIABLES
    \* --- the score parsing of the scrapers
    result_score,      \* the text of the .result-score element / snapshot entry
    score_results    \* what each parsing statement made of it

scoreVars == <<result_score, score_results>>

VARIABLES
    \* --- append_to_csv
    new_matches,     \* the new_matches argument
    existing_csv,    \* the file at existing_csv_path before the call
    csv_file,        \* the file at existing_csv_path
    append_raised    \* the call ended in an exception

appendVars == <<new_matches, existing_csv, csv_file, append_raised>>

VARIABLES
    \* --- the forfeit check
    check_page,    \* what the match page requested for the check holds
    forfeit_verdicts \* the match is skipped as a forfeit, per scraper

forfeitVars == <<check_page, forfeit_verdicts>>

VARIABLES
    \* --- one listing item of the update scraper
    unit_site,       \* what the site serves for the item
    all_new_matches, \* all_new_matches after the item
    unit_calls       \* the scraping calls made for the item

updUnitVars == <<unit_site, all_new_matches, unit_calls>>

VARIABLES
    \* --- run_10k_scraper.py
    launch_args,     \* the command line of the launcher
    snapshot_on_disk \* the snapshot file the launcher finds or leaves

launchVars == <<launch_args, snapshot_on_disk>>

VARIABLES
    \* --- run_scraper.py
    dispatch_in,     \* the command line and what the process finds
    dispatch_end     \* how the process ended

dispatchVars == <<dispatch_in, dispatch_end>>

VARIABLES
    \* --- command line of hltv_largescale_scraper.py
    total_matches_arg \* args.total_matches

\* what is read from the command line and written by no step
cmdVars == <<total_matches_arg>>

VARIABLES
    \* --- the numeric cell parsers
    cell_text,       \* the text of a table cell
    cell_results     \* what each parser returned

cellVars == <<cell_text, cell_results>>

VARIABLES
    \* --- combine_checkpoints.py
    checkpoint_files, \* the checkpoint CSV files, in the order of their names
    combined          \* the combined dataset written

combineVars == <<checkpoint_files, combined>>

toolVars == <<avgVars, rowVars, scoreVars, appendVars, forfeitVars, updUnitVars,
              launchVars, dispatchVars, cmdVars, cellVars, combineVars>>

\* everything the crawl programs own, left alone by the tools
crawlVars == <<runs, siteVars, pause_file, cfgVars, snapshot_index, match_counter,
               matches_found, all_matches, pageVars, returned, progress_file,
               outVars, snapHist, page_requests, listHist, saved_args, in_flight,
               exit_reason, lsVars, unitVars, cmdVars>>

vars == <<procVars, siteVars, pause_file, cfgVars, snapshot_index, match_counter,
          matches_found, all_matches, pageVars, returned, progress_file, outVars,
          snapHist, page_requests, listHist, saved_args, in_flight, exit_reason, lsVars,
          unitVars, toolVars>>

(***************************************************************************)
(* Checkpoint store of the enhanced scraper.                               *)
(***************************************************************************)
\* save_progress without the snapshot_index entry
save_progress_NoIndex(counter, index, with_snapshot) ==
    [k \in {"match_counter", "timestamp"} |->
        IF k = "match_counter" THEN json_dump(counter) ELSE IsoTime]

\* save_progress: the JSON object written to scraper_progress.json
save_progress(counter, index, with_snapshot) ==
    [k \in {"match_counter", "timestamp"}
           \cup (IF with_snapshot THEN {"snapshot_index"} ELSE {}) |->
        CASE k = "match_counter" -> json_dump(counter)
          [] k = "snapshot_index" -> json_dump(index)
          [] OTHER -> IsoTime]

\* load_progress: <<match_counter, snapshot_index>> of a new scraper instance
load_progress(file, with_snapshot) ==
    IF file = NoFile THEN <<0, 0>>
    ELSE <<dict_get(file[1], "match_counter", 0),
           IF with_snapshot THEN dict_get(file[1], "snapshot_index", 0) ELSE 0>>

\* a pause check that never sees the file
check_pause_signal_Blind == FALSE

\* check_pause_signal: os.path.exists(self.pause_file)
check_pause_signal == pause_file

(***************************************************************************)
(* Snapshot contents and the remote site as seen by one unit of work.      *)
(***************************************************************************)
SnapshotScores ==
    { <<"2", "-", "1">>, <<"1", "-", "0">>, <<"0", "-", "1">>,
      <<"1", " ", "-", " ", "2">>, <<"1", ":", "2">> }

ForfeitScores == { <<"1", "-", "0">>, <<"0", "-", "1">> }

\* str.replace(' ', '')
RECURSIVE RemoveSpaces(_)
RemoveSpaces(t) ==
    IF Len(t) = 0 THEN <<>>
    ELSE IF t[1] = " " THEN RemoveSpaces(Tail(t))
    ELSE <<t[1]>> \o RemoveSpaces(Tail(t))

\* the separator occurs in t at index i
OccursAt(t, sep, i) ==
    i + Len(sep) - 1 <= Len(t) /\ SubSeq(t, i, i + Len(sep) - 1) = sep

\* str.split(sep): the sequence of parts
RECURSIVE SplitSep(_, _)
SplitSep(t, sep) ==
    IF \A i \in 1..Len(t) : ~OccursAt(t, sep, i) THEN <<t>>
    ELSE LET i == CHOOSE j \in 1..Len(t) :
                      OccursAt(t, sep, j) /\ \A k \in 1..(j - 1) : ~OccursAt(t, sep, k)
         IN  <<SubSeq(t, 1, i - 1)>>
                 \o SplitSep(SubSeq(t, i + Len(sep), Len(t)), sep)

\* str.strip() of blanks
RECURSIVE Strip(_)
Strip(t) ==
    IF Len(t) > 0 /\ t[1] = " " THEN Strip(Tail(t))
    ELSE IF Len(t) > 0 /\ t[Len(t)] = " " THEN Strip(SubSeq(t, 1, Len(t) - 1))
    ELSE t

\* the text without its leading minus sign, if it has one
Unsigned(d) == IF Len(d) > 0 /\ d[1] = "-" THEN Tail(d) ELSE d

\* int(part) succeeds: digits after an optional minus sign, possibly
\* between blanks
IntParses(part) ==
    LET d == Unsigned(Strip(part))
    IN  Len(d) > 0 /\ \A i \in 1..Len(d) : IsDigit(d[i])

\* int(part)
PyInt(part) ==
    LET d == Strip(part)
    IN  IF Unsigned(d) = d THEN TextToNat(d) ELSE 0 - TextToNat(Unsigned(d))

\* "team1_score, team2_score = map(int, score_text.split('-'))" of the
\* snapshot loop: the pair, or <<>> when the statement raises
ParseSnapshotScore(score) ==
    LET parts == SplitSep(RemoveSpaces(score), <<"-">>)
    IN  IF Len(parts) = 2 /\ IntParses(parts[1]) /\ IntParses(parts[2])
        THEN <<PyInt(parts[1]), PyInt(parts[2])>>
        ELSE <<>>

\* what the site answers while one snapshot unit is processed
SnapshotUnitEnv ==
    [score : SnapshotScores,
     forfeit_page : {"unreachable", "forfeit", "plain"},
     match_page : {"unreachable", "noteams", "nometa", "nostats", "raises", "full"}]

\* body of the per-unit try block of the snapshot loop:
\* valid = a record is appended, requests = get_page_content calls made
SnapshotUnit(env) ==
    LET check == env.score \in ForfeitScores
        pre == IF check THEN 1 ELSE 0
    IN  IF check /\ env.forfeit_page = "forfeit"
            THEN [valid |-> FALSE, requests |-> 1]
        ELSE IF env.match_page # "full"
            THEN [valid |-> FALSE, requests |-> pre + 1]
        ELSE IF ParseSnapshotScore(env.score) = <<>>
            THEN [valid |-> FALSE, requests |-> pre + 1]
        ELSE [valid |-> TRUE, requests |-> pre + 1]

\* The site's answers vary freely for snapshots of up to MaxSnapshotLen
\* entries; for a longer snapshot every unit is served in full, which keeps
\* the state space linear in the snapshot length.
VariedSite == snapshot_len <= MaxSnapshotLen
UniformUnitEnv ==
    [score |-> <<"2", "-", "1">>, forfeit_page |-> "plain", match_page |-> "full"]


(***************************************************************************)
(* The live results listing and the per-item functions of threshold mode.  *)
(***************************************************************************)
ListingScores ==
    { <<"2", " ", "-", " ", "1">>, <<"1", "-", "0">> }

RegularScore == <<"2", " ", "-", " ", "1">>

\* score texts of listings of n results: the form the listing page shows,
\* except for at most one result
Listings ==
    UNION { { scores \in [1..n -> ListingScores] :
                Cardinality({ i \in 1..n : scores[i] # RegularScore }) <= 1 } :
            n \in 1..MaxListing }

\* the same, every text in the regular form
RegularListings ==
    UNION { [1..n -> {RegularScore}] : n \in 1..MaxListing }

\* the listing: identifiers n, n-1, ..., 1 (newest first) with their texts
ListingOf(scores) ==
    [i \in 1..Len(scores) |-> <<Len(scores) + 1 - i, scores[i]>>]

\* soup.select('.result-con') of the page served for "?offset=page_offset":
\* the site serves SitePageSize results for every OffsetStep of offset
Page(offset) ==
    LET first == (offset \div OffsetStep) * SitePageSize + 1
        last == IF first + SitePageSize - 1 < Len(listing)
                THEN first + SitePageSize - 1 ELSE Len(listing)
    IN  SubSeq(listing, first, last)

\* extract_match_info with the floor test "match_id < target"
extract_match_info_Strict(item, target) ==
    LET parts == SplitSep(item[2], <<" ", "-", " ">>)
    IN  IF target = None THEN <<>>
        ELSE IF item[1] < target THEN <<>>
        ELSE IF Len(parts) = 2 /\ IntParses(parts[1]) /\ IntParses(parts[2])
             THEN <<item[1], PyInt(parts[1]), PyInt(parts[2])>>
             ELSE <<>>

\* extract_match_info splitting the score text as the snapshot loop does:
\* on '-', blanks removed
extract_match_info_DashSplit(item, target) ==
    LET parts == SplitSep(RemoveSpaces(item[2]), <<"-">>)
    IN  IF target = None THEN <<>>
        ELSE IF item[1] <= target THEN <<>>
        ELSE IF Len(parts) = 2 /\ IntParses(parts[1]) /\ IntParses(parts[2])
             THEN <<item[1], PyInt(parts[1]), PyInt(parts[2])>>
             ELSE <<>>

\* extract_match_info (enhanced and update scraper): <<match_id, team1_score,
\* team2_score>>, or <<>> for None.  A target of None makes the comparison
\* raise TypeError, which the function's own handler turns into None.
extract_match_info(item, target) ==
    LET parts == SplitSep(item[2], <<" ", "-", " ">>)
    IN  IF target = None THEN <<>>
        ELSE IF item[1] <= target THEN <<>>
        ELSE IF Len(parts) = 2 /\ IntParses(parts[1]) /\ IntParses(parts[2])
             THEN <<item[1], PyInt(parts[1]), PyInt(parts[2])>>
             ELSE <<>>

\* is_match_forfeited with the score shape taken as the verdict
is_match_forfeited_ByScoreAlone(score_text, page) ==
    IF score_text \in ForfeitScores THEN <<TRUE, 1>> ELSE <<FALSE, 0>>

\* is_match_forfeited: <<result, get_page_content calls made>>
is_match_forfeited(score_text, forfeit_page) ==
    IF score_text \in ForfeitScores
    THEN <<forfeit_page = "forfeit", 1>>
    ELSE <<FALSE, 0>>

\* what the site answers while one listing item is processed:
\* forfeit_page as in snapshot mode; unit = the outcome of the rest of the
\* per-item work (process_match_with_timeout, or the roster and player
\* pages of the update scraper)
ThresholdUnitEnv ==
    [forfeit_page : {"unreachable", "forfeit", "plain"},
     unit : {"record", "none"}]

\* The site's answers vary freely during the first crawl of the enhanced
\* scraper run on its own; to its later crawls, and to the batches of the
\* large-scale scraper, every listing page and every unit is served in
\* full.  The update scraper's crawls see the site vary in every run.
VariedListingSite == program # "largescale" /\ runs <= 1
UniformThresholdEnv == [forfeit_page |-> "plain", unit |-> "record"]

(***************************************************************************)
(* Operator actions on the pause sentinel of the enhanced scraper.         *)
(***************************************************************************)
\* "hltv_enhanced_scraper.py --pause": create_pause_file
create_pause_file ==
    /\ program \in {"snapshot", "threshold"}
    /\ ~pause_file
    /\ pause_file' = TRUE
    /\ UNCHANGED <<procVars, siteVars, cfgVars, snapshot_index, match_counter,
                   matches_found, all_matches, pageVars, returned, progress_file,
                   outVars, snapHist, page_requests, listHist, saved_args, in_flight,
                   exit_reason, lsVars, unitVars, toolVars>>

\* the operator deletes the pause file by hand (between two runs: a file
\* deleted while a crawl runs is, for the crawl, a file that came later)
OperatorRemovesPauseFile ==
    /\ pc \in {"idle", "exited"}
    /\ pause_file
    /\ pause_file' = FALSE
    /\ UNCHANGED <<procVars, siteVars, cfgVars, snapshot_index, match_counter,
                   matches_found, all_matches, pageVars, returned, progress_file,
                   outVars, snapHist, page_requests, listHist, saved_args, in_flight,
                   exit_reason, lsVars, unitVars, toolVars>>

(***************************************************************************)
(* HLTVEnhancedScraper.__init__ followed by run() up to the crawl loop.    *)
(***************************************************************************)
\* fields and locals as __init__, load_progress and the head of the crawl
\* function leave them (counter: the match_counter the loop starts from)
EnterCrawl(counter, index) ==
    /\ match_counter' = counter
    /\ snapshot_index' = index
    /\ start_index' = index
    /\ matches_found' = 0
    /\ all_matches' = EmptyList
    /\ page_offset' = 0
    /\ page_items' = <<>>
    /\ returned' = EmptyList
    /\ taken' = EmptyList
    /\ skipped' = EmptyList
    /\ page_requests' = EmptyList
    /\ listing_requests' = <<>>
    /\ examined' = <<>>
    /\ floor_hit' = FALSE
    /\ exit_reason' = NoReason

StartSnapshotRun ==
    /\ program = "snapshot"
    /\ pc \in {"idle", "exited"}
    /\ runs < MaxRuns
    /\ runs' = runs + 1
    /\ LET p == load_progress(progress_file, snapshot_file)
       IN  EnterCrawl(p[1], p[2])
    /\ pc' = "snapshot_loop"
    /\ UNCHANGED <<program, siteVars, pause_file, cfgVars, page_matches_processed,
                   progress_file, outVars, saved_args, in_flight, lsVars, unitVars, toolVars>>

(***************************************************************************)
(* Return from a crawl loop of the enhanced scraper.  Both loops end in    *)
(* "finally: self.save_progress()".                                        *)
(***************************************************************************)
CrawlReturn(reason, counter, index, inter, files) ==
    /\ returned' = all_matches
    /\ exit_reason' = reason
    /\ progress_file' = FileOf(save_progress(counter, index, snapshot_file))
    /\ saved_args' = <<counter, index>>
    /\ in_flight' = <<>>
    /\ match_counter' = counter
    /\ snapshot_index' = index
    /\ intermediate' = inter
    /\ json_files' = files
    /\ pc' = "returned"
    /\ UNCHANGED <<matches_found, all_matches>>

\* "if self.match_counter % 10 == 0: self.save_progress()": the loop calls it
\* after the counters went up and before the try block of the unit taken
PeriodicSave(counter, index) ==
    IF counter % ProgressEvery = 0
    THEN /\ progress_file' = FileOf(save_progress(counter, index, snapshot_file))
         /\ saved_args' = <<counter, index>>
         /\ in_flight' = (IF snapshot_file THEN <<index - 1>> ELSE <<>>)
    ELSE UNCHANGED <<progress_file, saved_args, in_flight>>

\* "if self.match_counter % 100 == 0 and matches_found > 0":
\* save_intermediate_data and convert_to_csv of all_matches
save_intermediate_data(counter, found, matches) ==
    IF counter % CheckpointEvery = 0 /\ found > 0
    THEN <<intermediate[1] + 1, matches>> ELSE intermediate

\* the while condition without the test on matches_found
SnapshotLoopCondition_IndexOnly ==
    snapshot_index < snapshot_len

(***************************************************************************)
(* scrape_enhanced_matches_from_snapshot: one evaluation of the while      *)
(* condition and, when it holds, one pass through the loop body.           *)
(***************************************************************************)
\* the while condition with the index bound off by one
SnapshotLoopCondition_OffByOne ==
    matches_found < num_matches /\ snapshot_index <= snapshot_len

\* "while matches_found < self.num_matches and
\*        self.snapshot_index < len(self.snapshot_data)"
SnapshotLoopCondition ==
    matches_found < num_matches /\ snapshot_index < snapshot_len

\* the while condition is false
SnapshotLoopExit ==
    /\ program = "snapshot" /\ pc = "snapshot_loop"
    /\ ~SnapshotLoopCondition
    /\ CrawlReturn("loop_end", match_counter, snapshot_index,
                   intermediate, json_files)
    /\ UNCHANGED <<program, runs, siteVars, pause_file, cfgVars, pageVars,
                   snapHist, page_requests, listHist, lsVars, unitVars, toolVars>>

\* check_pause_signal() is true: handle_pause saves and the loop returns
SnapshotPause ==
    /\ program = "snapshot" /\ pc = "snapshot_loop"
    /\ SnapshotLoopCondition
    /\ check_pause_signal
    /\ CrawlReturn("pause", match_counter, snapshot_index,
                   intermediate, json_files)
    /\ UNCHANGED <<program, runs, siteVars, pause_file, cfgVars, pageVars,
                   snapHist, page_requests, listHist, lsVars, unitVars, toolVars>>

SnapshotIteration ==
    /\ program = "snapshot" /\ pc = "snapshot_loop"
    /\ SnapshotLoopCondition
    /\ ~check_pause_signal
    /\ LET position == snapshot_index
           counter == match_counter + 1
           index == snapshot_index + 1
           inter == save_intermediate_data(counter, matches_found, all_matches)
       IN  /\ taken' = ListAppend(taken, position)
           /\ IF matches_found >= FinalCsvAt
              THEN \* "Save final CSV at 10,000 games": return before the unit
                   /\ CrawlReturn("final_csv", counter, index, inter,
                                  Append(json_files, all_matches))
                   /\ UNCHANGED page_requests
                   /\ skipped' = ListAppend(skipped, position)
              ELSE \E env \in SnapshotUnitEnv :
                     LET unit == SnapshotUnit(env)
                     IN  /\ VariedSite \/ env = UniformUnitEnv
                         /\ match_counter' = counter
                         /\ snapshot_index' = index
                         /\ PeriodicSave(counter, index)
                         /\ intermediate' = inter
                         /\ UNCHANGED json_files
                         /\ page_requests' =
                                ListAppendTimes(page_requests, position, unit.requests)
                         /\ IF unit.valid
                            THEN /\ all_matches' = ListAppend(all_matches, position)
                                 /\ matches_found' = matches_found + 1
                                 /\ UNCHANGED skipped
                            ELSE /\ UNCHANGED <<all_matches, matches_found>>
                                 /\ skipped' = ListAppend(skipped, position)
                         /\ UNCHANGED <<pc, returned, exit_reason>>
    /\ UNCHANGED <<program, runs, siteVars, pause_file, cfgVars, pageVars,
                   start_index, listHist, lsVars, unitVars, toolVars>>

(***************************************************************************)
(* run() after the crawl returned: outputs and final progress, then exit.  *)
(***************************************************************************)
RunFinish ==
    /\ program \in {"snapshot", "threshold"}
    /\ pc = "returned"
    /\ IF ListLen(returned) = 0
       THEN UNCHANGED <<json_files, progress_file, saved_args, in_flight>>
       ELSE /\ json_files' = Append(json_files, returned)
            /\ progress_file' =
                  FileOf(save_progress(match_counter, snapshot_index, snapshot_file))
            /\ saved_args' = <<match_counter, snapshot_index>>
            /\ in_flight' = <<>>
    /\ pc' = "exited"
    /\ UNCHANGED <<program, runs, siteVars, pause_file, cfgVars, snapshot_index,
                   match_counter, matches_found, all_matches, pageVars, returned,
                   intermediate, snapHist, page_requests, listHist, exit_reason,
                   lsVars, unitVars, toolVars>>

(***************************************************************************)
(* The site publishes a new result: it gets the next identifier and goes   *)
(* to the head of the listing.  The model lets it happen between two       *)
(* batches of the large-scale scraper.                                     *)
(***************************************************************************)
SitePublishes ==
    /\ pc = "ls_loop"
    /\ published < MaxPublished
    /\ listing' = <<(<<Len(listing) + 1, RegularScore>>)>> \o listing
    /\ published' = published + 1
    /\ UNCHANGED <<procVars, pause_file, cfgVars, snapshot_index, match_counter,
                   matches_found, all_matches, pageVars, returned, progress_file,
                   outVars, snapHist, page_requests, listHist, saved_args, in_flight,
                   exit_reason, lsVars, unitVars, toolVars>>

(***************************************************************************)
(* scrape_enhanced_matches without snapshot data (threshold mode).         *)
(***************************************************************************)
StartThresholdRun ==
    /\ program = "threshold"
    /\ pc \in {"idle", "exited"}
    /\ runs < MaxRuns
    /\ runs' = runs + 1
    /\ LET p == load_progress(progress_file, snapshot_file)
       IN  EnterCrawl(p[1], p[2])
    /\ pc' = "threshold_loop"
    /\ UNCHANGED <<program, siteVars, pause_file, cfgVars, page_matches_processed,
                   progress_file, outVars, saved_args, in_flight, lsVars, unitVars, toolVars>>

\* "while matches_found < self.num_matches" is false
ThresholdLoopExit ==
    /\ program \in {"threshold", "largescale"} /\ pc = "threshold_loop"
    /\ ~(matches_found < num_matches)
    /\ CrawlReturn("loop_end", match_counter, snapshot_index,
                   intermediate, json_files)
    /\ UNCHANGED <<program, runs, siteVars, pause_file, cfgVars, pageVars,
                   snapHist, page_requests, listHist, lsVars, unitVars, toolVars>>

\* the listing page of the current offset is requested; no document or no
\* '.result-con' element ends the loop
ThresholdFetchPage ==
    /\ program \in {"threshold", "largescale"} /\ pc = "threshold_loop"
    /\ matches_found < num_matches
    /\ listing_requests' = Append(listing_requests, page_offset)
    /\ \E soup \in BOOLEAN :
         /\ VariedListingSite \/ soup
         /\ IF ~soup \/ Page(page_offset) = <<>>
            THEN /\ CrawlReturn("no_page", match_counter, snapshot_index,
                                intermediate, json_files)
                 /\ UNCHANGED page_items
            ELSE /\ page_items' = Page(page_offset)
                 /\ pc' = "threshold_items"
                 /\ UNCHANGED <<snapshot_index, match_counter, matches_found,
                                all_matches, returned, progress_file, outVars,
                                saved_args, in_flight, exit_reason>>
    /\ UNCHANGED <<program, runs, siteVars, pause_file, cfgVars, page_offset,
                   page_matches_processed, snapHist, page_requests, examined,
                   floor_hit, lsVars, unitVars, toolVars>>

\* the pause check at the head of the for loop finds the file
ThresholdPause ==
    /\ program \in {"threshold", "largescale"} /\ pc = "threshold_items"
    /\ page_items # <<>>
    /\ check_pause_signal
    /\ CrawlReturn("pause", match_counter, snapshot_index,
                   intermediate, json_files)
    /\ UNCHANGED <<program, runs, siteVars, pause_file, cfgVars, pageVars,
                   snapHist, page_requests, listHist, lsVars, unitVars, toolVars>>

\* one pass through the body of the for loop
ThresholdItem ==
    /\ program \in {"threshold", "largescale"} /\ pc = "threshold_items"
    /\ page_items # <<>>
    /\ ~check_pause_signal
    /\ IF matches_found >= num_matches
       THEN \* break
            /\ page_items' = <<>>
            /\ UNCHANGED <<pc, snapshot_index, match_counter, matches_found,
                           all_matches, returned, progress_file, outVars,
                           page_requests, listHist, saved_args, in_flight, exit_reason>>
       ELSE
         LET item == Head(page_items)
             counter == match_counter + 1
             inter == save_intermediate_data(counter, matches_found, all_matches)
         IN  /\ page_items' = Tail(page_items)
             /\ IF matches_found >= FinalCsvAt
                THEN /\ CrawlReturn("final_csv", counter, snapshot_index, inter,
                                    Append(json_files, all_matches))
                     /\ UNCHANGED <<page_requests, listHist>>
                ELSE \E env \in ThresholdUnitEnv :
                       LET match_info == extract_match_info(item, target_match_id)
                           forfeit == is_match_forfeited(item[2], env.forfeit_page)
                       IN  /\ VariedListingSite \/ env = UniformThresholdEnv
                           /\ match_counter' = counter
                           /\ PeriodicSave(counter, snapshot_index)
                           /\ intermediate' = inter
                           /\ examined' = Append(examined, item[1])
                           /\ floor_hit' = (floor_hit \/
                                 (target_match_id # None /\ item[1] <= target_match_id))
                           /\ IF match_info = <<>>
                              THEN \* continue
                                   UNCHANGED <<all_matches, matches_found, page_requests>>
                              ELSE IF forfeit[1]
                              THEN \* continue
                                   /\ page_requests' =
                                        ListAppendTimes(page_requests, item[1], forfeit[2])
                                   /\ UNCHANGED <<all_matches, matches_found>>
                              ELSE /\ page_requests' =
                                        ListAppendTimes(page_requests, item[1], forfeit[2] + 1)
                                   /\ IF env.unit = "record"
                                      THEN /\ all_matches' = ListAppend(all_matches, match_info[1])
                                           /\ matches_found' = matches_found + 1
                                      ELSE UNCHANGED <<all_matches, matches_found>>
                           /\ UNCHANGED <<pc, snapshot_index, returned, json_files,
                                          listing_requests, exit_reason>>
    /\ UNCHANGED <<program, runs, siteVars, pause_file, cfgVars, page_offset,
                   page_matches_processed, snapHist, lsVars, unitVars, toolVars>>

\* the for loop is over: "if matches_found < self.num_matches: page_offset += 100"
ThresholdPageEnd ==
    /\ program \in {"threshold", "largescale"} /\ pc = "threshold_items"
    /\ page_items = <<>>
    /\ page_offset' = IF matches_found < num_matches
                      THEN page_offset + OffsetStep ELSE page_offset
    /\ pc' = "threshold_loop"
    /\ UNCHANGED <<program, runs, siteVars, pause_file, cfgVars, snapshot_index,
                   match_counter, matches_found, all_matches, page_items,
                   page_matches_processed, returned, progress_file, outVars,
                   snapHist, page_requests, listHist, saved_args, in_flight, exit_reason,
                   lsVars, unitVars, toolVars>>

(***************************************************************************)
(* HLTVUpdateScraper: per-item functions and scrape_new_matches.           *)
(***************************************************************************)
\* HLTVUpdateScraper.extract_match_info: as the enhanced scraper's
update_extract_match_info(item, target) ==
    LET parts == SplitSep(item[2], <<" ", "-", " ">>)
    IN  IF target = None THEN <<>>
        ELSE IF item[1] <= target THEN <<>>
        ELSE IF Len(parts) = 2 /\ IntParses(parts[1]) /\ IntParses(parts[2])
             THEN <<item[1], PyInt(parts[1]), PyInt(parts[2])>>
             ELSE <<>>

\* HLTVUpdateScraper.is_match_forfeited: <<result, get_page_content calls made>>
update_is_match_forfeited(score_text, forfeit_page) ==
    IF score_text \in ForfeitScores
    THEN <<forfeit_page = "forfeit", 1>>
    ELSE <<FALSE, 0>>

\* what the site answers while the update scraper processes one item:
\* unit = "none" when the team URLs or a roster of five cannot be read
UpdateUnitEnv ==
    [forfeit_page : {"unreachable", "forfeit", "plain"},
     unit : {"record", "none"}]

StartUpdateRun ==
    /\ program = "update"
    /\ pc \in {"idle", "exited"}
    /\ runs < MaxRuns
    /\ runs' = runs + 1
    /\ EnterCrawl(0, 0)
    /\ page_matches_processed' = 0
    /\ pc' = "update_loop"
    /\ UNCHANGED <<program, siteVars, pause_file, cfgVars, progress_file, outVars,
                   saved_args, in_flight, lsVars, unitVars, toolVars>>

\* "return all_new_matches"
UpdateReturn(reason) ==
    /\ returned' = all_matches
    /\ exit_reason' = reason
    /\ pc' = "returned"

\* head of "while True": the listing page of the current offset is requested
UpdateFetchPage ==
    /\ program = "update" /\ pc = "update_loop"
    /\ listing_requests' = Append(listing_requests, page_offset)
    /\ \E soup \in BOOLEAN :
         IF ~soup \/ Page(page_offset) = <<>>
         THEN /\ UpdateReturn("no_page")
              /\ UNCHANGED <<page_items, page_matches_processed>>
         ELSE /\ page_items' = Page(page_offset)
              /\ page_matches_processed' = 0
              /\ pc' = "update_items"
              /\ UNCHANGED <<returned, exit_reason>>
    /\ UNCHANGED <<program, runs, siteVars, pause_file, cfgVars, snapshot_index,
                   match_counter, matches_found, all_matches, page_offset,
                   progress_file, outVars, snapHist, page_requests, examined,
                   floor_hit, saved_args, in_flight, lsVars, unitVars, toolVars>>

\* one pass through the body of the for loop
UpdateItem ==
    /\ program = "update" /\ pc = "update_items"
    /\ page_items # <<>>
    /\ \E env \in UpdateUnitEnv :
         LET item == Head(page_items)
             match_info == update_extract_match_info(item, target_match_id)
             forfeit == update_is_match_forfeited(item[2], env.forfeit_page)
         IN  /\ examined' = Append(examined, item[1])
             /\ floor_hit' = (floor_hit \/ item[1] <= target_match_id)
             /\ IF match_info = <<>>
                THEN \* break
                     /\ page_items' = <<>>
                     /\ UNCHANGED <<all_matches, matches_found,
                                    page_matches_processed, page_requests>>
                ELSE /\ page_items' = Tail(page_items)
                     /\ IF forfeit[1]
                        THEN \* continue
                             /\ page_requests' =
                                  ListAppendTimes(page_requests, item[1], forfeit[2])
                             /\ UNCHANGED <<all_matches, matches_found,
                                            page_matches_processed>>
                        ELSE /\ page_requests' =
                                  ListAppendTimes(page_requests, item[1], forfeit[2] + 1)
                             /\ IF env.unit = "record"
                                THEN /\ all_matches' = ListAppend(all_matches, match_info[1])
                                     /\ matches_found' = matches_found + 1
                                     /\ page_matches_processed' = page_matches_processed + 1
                                ELSE UNCHANGED <<all_matches, matches_found,
                                                 page_matches_processed>>
    /\ UNCHANGED <<procVars, siteVars, pause_file, cfgVars, snapshot_index,
                   match_counter, page_offset, returned, progress_file, outVars,
                   snapHist, listing_requests, saved_args, in_flight, exit_reason, lsVars,
                   unitVars, toolVars>>

\* after the for loop: "if page_matches_processed == 0: break", else the
\* next page
UpdatePageEnd ==
    /\ program = "update" /\ pc = "update_items"
    /\ page_items = <<>>
    /\ IF page_matches_processed = 0
       THEN /\ UpdateReturn("no_new_matches")
            /\ UNCHANGED page_offset
       ELSE /\ page_offset' = page_offset + OffsetStep
            /\ pc' = "update_loop"
            /\ UNCHANGED <<returned, exit_reason>>
    /\ UNCHANGED <<program, runs, siteVars, pause_file, cfgVars, snapshot_index,
                   match_counter, matches_found, all_matches, page_items,
                   page_matches_processed, progress_file, outVars, snapHist,
                   page_requests, listHist, saved_args, in_flight, lsVars, unitVars, toolVars>>

\* HLTVUpdateScraper.run after the crawl: the new matches are written as JSON
UpdateFinish ==
    /\ program = "update" /\ pc = "returned"
    /\ json_files' = IF ListLen(returned) = 0 THEN json_files
                     ELSE Append(json_files, returned)
    /\ pc' = "exited"
    /\ UNCHANGED <<program, runs, siteVars, pause_file, cfgVars, snapshot_index,
                   match_counter, matches_found, all_matches, pageVars, returned,
                   progress_file, intermediate, snapHist, page_requests, listHist,
                   saved_args, in_flight, exit_reason, lsVars, unitVars, toolVars>>

(***************************************************************************)
(* HLTVLargeScaleScraper: checkpoint store, pause file and the batch loop. *)
(* The progress dict is modelled with its integer-valued entries (the      *)
(* start_time and last_updated time stamps are left out).                  *)
(***************************************************************************)
\* the dict load_progress returns when there is no progress file
DefaultProgress ==
    [k \in {"matches_completed", "current_season", "last_match_id",
            "batches_completed"} |->
        CASE k = "current_season" -> 1
          [] k = "last_match_id" -> None
          [] OTHER -> 0]

\* HLTVLargeScaleScraper.load_progress: json.load of the file
ls_load_progress(file) ==
    IF file = NoFile THEN DefaultProgress
    ELSE [k \in DOMAIN file[1] |-> json_load(file[1][k])]

\* a save_progress that stores null for last_match_id
ls_save_progress_NoCursor(progress_data) ==
    [k \in DOMAIN progress_data |->
        IF k = "last_match_id" THEN NullText ELSE json_dump(progress_data[k])]

\* HLTVLargeScaleScraper.save_progress: json.dump of the dict
ls_save_progress(progress_data) ==
    [k \in DOMAIN progress_data |-> json_dump(progress_data[k])]

\* calculate_season
calculate_season(match_number) ==
    IF match_number <= 0 THEN 1
    ELSE LET s == ((match_number - 1) \div matches_per_season) + 1
         IN  IF s < total_seasons THEN s ELSE total_seasons

\* HLTVLargeScaleScraper.check_pause_signal
ls_check_pause_signal == ls_pause_file

\* "hltv_largescale_scraper.py --pause": create_pause_file
ls_create_pause_file ==
    /\ program = "largescale"
    /\ ~ls_pause_file
    /\ ls_pause_file' = TRUE
    /\ UNCHANGED <<procVars, siteVars, pause_file, cfgVars, snapshot_index,
                   match_counter, matches_found, all_matches, pageVars, returned,
                   progress_file, outVars, snapHist, page_requests, listHist,
                   saved_args, in_flight, exit_reason, resume, start_match_id,
                   matches_completed, current_match_id, batches_completed,
                   progress, ls_progress_file, session_batches, seen,
                   ls_saved_args, unitVars, toolVars>>

\* the operator deletes the large-scale pause file by hand (between two runs)
OperatorRemovesLsPauseFile ==
    /\ pc \in {"idle", "exited"}
    /\ ls_pause_file
    /\ ls_pause_file' = FALSE
    /\ UNCHANGED <<procVars, siteVars, pause_file, cfgVars, snapshot_index,
                   match_counter, matches_found, all_matches, pageVars, returned,
                   progress_file, outVars, snapHist, page_requests, listHist,
                   saved_args, in_flight, exit_reason, resume, start_match_id,
                   matches_completed, current_match_id, batches_completed,
                   progress, ls_progress_file, session_batches, seen,
                   ls_saved_args, unitVars, toolVars>>

\* run_largescale_scraping with the pause file removed at every start
StartLargeScale_AlwaysClears ==
    /\ program = "largescale"
    /\ pc \in {"idle", "exited"}
    /\ runs < MaxRuns
    /\ runs' = runs + 1
    /\ \E r \in BOOLEAN, id \in 1..MaxListing :
         LET loaded == ls_load_progress(ls_progress_file)
         IN  /\ resume' = r
             /\ start_match_id' = IF r THEN 0 ELSE id
             /\ r => id = 1
             /\ progress' = loaded
             /\ IF r
                THEN /\ matches_completed' = loaded["matches_completed"]
                     /\ current_match_id' = loaded["last_match_id"]
                     /\ batches_completed' = loaded["batches_completed"]
                     /\ ls_pause_file' = FALSE
                ELSE /\ matches_completed' = 0
                     /\ current_match_id' = id
                     /\ batches_completed' = 0
                     /\ ls_pause_file' = FALSE
    /\ session_batches' = 0
    /\ seen' = {}
    /\ pc' = "ls_loop"
    /\ UNCHANGED <<program, siteVars, pause_file, cfgVars, snapshot_index,
                   match_counter, matches_found, all_matches, pageVars, returned,
                   progress_file, outVars, snapHist, page_requests, listHist,
                   saved_args, in_flight, exit_reason, ls_progress_file, ls_saved_args,
                   unitVars, toolVars>>

\* main() and the head of run_largescale_scraping
StartLargeScale ==
    /\ program = "largescale"
    /\ pc \in {"idle", "exited"}
    /\ runs < MaxRuns
    /\ runs' = runs + 1
    /\ \E r \in BOOLEAN, id \in 1..MaxListing :
         LET loaded == ls_load_progress(ls_progress_file)
         IN  /\ resume' = r
             /\ start_match_id' = IF r THEN 0 ELSE id
             /\ r => id = 1
             /\ progress' = loaded
             /\ IF r
                THEN /\ matches_completed' = loaded["matches_completed"]
                     /\ current_match_id' = loaded["last_match_id"]
                     /\ batches_completed' = loaded["batches_completed"]
                     /\ UNCHANGED ls_pause_file
                ELSE /\ matches_completed' = 0
                     /\ current_match_id' = id
                     /\ batches_completed' = 0
                     /\ ls_pause_file' = FALSE
    /\ session_batches' = 0
    /\ seen' = {}
    /\ pc' = "ls_loop"
    /\ UNCHANGED <<program, siteVars, pause_file, cfgVars, snapshot_index,
                   match_counter, matches_found, all_matches, pageVars, returned,
                   progress_file, outVars, snapHist, page_requests, listHist,
                   saved_args, in_flight, exit_reason, ls_progress_file, ls_saved_args,
                   unitVars, toolVars>>

\* the statements that store the three locals in the dict and save it
LsSave(completed, cursor, nbatches, season) ==
    LET p == [progress EXCEPT !["matches_completed"] = completed,
                              !["last_match_id"] = cursor,
                              !["batches_completed"] = nbatches,
                              !["current_season"] = season]
    IN  /\ progress' = p
        /\ ls_progress_file' = FileOf(ls_save_progress(p))
        /\ ls_saved_args' = <<completed, cursor, nbatches>>

\* the pause check at the head of the while loop finds the file
LsPause ==
    /\ program = "largescale" /\ pc = "ls_loop"
    /\ matches_completed < total_matches
    /\ ls_check_pause_signal
    /\ LsSave(matches_completed, current_match_id, batches_completed,
              progress["current_season"])
    /\ pc' = "exited"
    /\ UNCHANGED <<program, runs, siteVars, pause_file, cfgVars, snapshot_index,
                   match_counter, matches_found, all_matches, pageVars, returned,
                   progress_file, outVars, snapHist, page_requests, listHist,
                   saved_args, in_flight, exit_reason, resume, start_match_id,
                   matches_completed, current_match_id, batches_completed,
                   ls_pause_file, session_batches, seen, unitVars, toolVars>>

\* no pause: the loop ends when total_matches is reached; otherwise an
\* HLTVEnhancedScraper is built for the batch and its crawl entered
LsStartBatch ==
    /\ program = "largescale" /\ pc = "ls_loop"
    /\ ~(matches_completed < total_matches /\ ls_check_pause_signal)
    /\ IF ~(matches_completed < total_matches)
       THEN /\ pc' = "exited"
            /\ UNCHANGED <<cfgVars, snapshot_index, match_counter, matches_found,
                           all_matches, page_offset, page_items, returned,
                           snapHist, page_requests, listHist, exit_reason>>
       ELSE /\ session_batches < MaxBatches
            /\ LET remaining_matches == total_matches - matches_completed
               IN  num_matches' = IF batch_size < remaining_matches
                                  THEN batch_size ELSE remaining_matches
            /\ target_match_id' = current_match_id
            /\ EnterCrawl(matches_completed, 0)
            /\ pc' = "threshold_loop"
            /\ UNCHANGED <<snapshot_file, snapshot_len>>
    /\ UNCHANGED <<program, runs, siteVars, pause_file, page_matches_processed,
                   progress_file, outVars, saved_args, in_flight, lsVars, unitVars, toolVars>>

\* the batch crawl returned batch_matches_data
LsBatchDone ==
    /\ program = "largescale" /\ pc = "returned"
    /\ IF ListLen(returned) = 0
       THEN \* "No matches found in batch, stopping...": break
            /\ pc' = "exited"
            /\ UNCHANGED <<matches_completed, current_match_id, batches_completed,
                           progress, ls_progress_file, session_batches, seen,
                           ls_saved_args>>
       ELSE LET completed == matches_completed + ListLen(returned)
                cursor == ListMin(returned) - 1
            IN  /\ matches_completed' = completed
                /\ batches_completed' = batches_completed + 1
                /\ current_match_id' = cursor
                /\ LsSave(completed, cursor, batches_completed + 1,
                          calculate_season(matches_completed + 1))
                /\ session_batches' = session_batches + 1
                /\ seen' = seen \cup ListElems(returned)
                /\ pc' = "ls_loop"
    /\ UNCHANGED <<program, runs, siteVars, pause_file, cfgVars, snapshot_index,
                   match_counter, matches_found, all_matches, pageVars, returned,
                   progress_file, outVars, snapHist, page_requests, listHist,
                   saved_args, in_flight, exit_reason, resume, start_match_id, ls_pause_file,
                   unitVars, toolVars>>

(***************************************************************************)
(* One call of process_match_with_timeout (alarm armed) or one plain call  *)
(* of get_page_content (alarm off), statement by statement.  SIGALRM is    *)
(* delivered match_timeout seconds after signal.alarm: at any blocking     *)
(* point of the call, since a GET takes arbitrarily long, and no later     *)
(* than the sleep that carries the time slept past match_timeout.  The     *)
(* handler raises TimeoutError (an Exception) in the interrupted frame.    *)
(***************************************************************************)
Responses == {"ok", "429", "error"}

\* "wait_time = (attempt + 1) * 10" after HTTP 429
RateLimitWait(a) == (a + 1) * 10
\* the exception handler backing off by the rate-limit step
ErrorWait_RateLimitStep(a) == (a + 1) * 10
\* "wait_time = (attempt + 1) * 5" in the exception handler
ErrorWait(a) == (a + 1) * 5

\* the sleep of d seconds ends before the alarm is due
SleepCompletes(d) == alarm # "armed" \/ elapsed + d < match_timeout

LogResponse(r) == Append(gpc_log, [response |-> r, sleeps |-> <<>>])
LogSleep(d, completed) ==
    [gpc_log EXCEPT ![Len(gpc_log)].sleeps = Append(@, <<d, completed>>)]

\* get_page_content returns None: every caller inside the unit gives the
\* unit up ("if not soup: return None", "if not stats_soup: return None")
GpcReturnsNone ==
    /\ gpc_result' = "None"
    /\ u_result' = IF alarm = "off" THEN u_result ELSE "None"
    /\ u_pc' = "done"

\* get_page_content returns the parsed document
GpcReturnsSoup ==
    /\ gpc_result' = "soup"
    /\ u_pc' = IF alarm = "off" THEN "done"
               ELSE IF u_fetch = 1 THEN "extract" ELSE "stats"
    /\ UNCHANGED u_result

\* the "except Exception" handler of get_page_content up to its sleep
Handler ==
    IF attempt = max_retries - 1
    THEN GpcReturnsNone
    ELSE /\ u_pc' = "sleep_err"
         /\ UNCHANGED <<gpc_result, u_result>>

\* self.session.get(url) answers (or raises)
UnitGet ==
    /\ program = "unit" /\ u_pc = "get"
    /\ \E r \in Responses :
         /\ gpc_log' = LogResponse(r)
         /\ IF r = "ok" THEN GpcReturnsSoup
            ELSE IF r = "429"
            THEN /\ u_pc' = "sleep429"
                 /\ UNCHANGED <<gpc_result, u_result>>
            ELSE Handler
    /\ UNCHANGED <<procVars, siteVars, pause_file, cfgVars, snapshot_index,
                   match_counter, matches_found, all_matches, pageVars, returned,
                   progress_file, outVars, snapHist, page_requests, listHist,
                   saved_args, in_flight, exit_reason, lsVars, toolVars, u_fetch, attempt, alarm,
                   elapsed, timed_out>>

\* the alarm goes off while session.get blocks: TimeoutError inside the try
UnitAlarmInGet ==
    /\ program = "unit" /\ u_pc = "get"
    /\ alarm = "armed"
    /\ alarm' = "fired"
    /\ timed_out' = TRUE
    /\ gpc_log' = LogResponse("alarm")
    /\ Handler
    /\ UNCHANGED <<procVars, siteVars, pause_file, cfgVars, snapshot_index,
                   match_counter, matches_found, all_matches, pageVars, returned,
                   progress_file, outVars, snapHist, page_requests, listHist,
                   saved_args, in_flight, exit_reason, lsVars, toolVars, u_fetch, attempt, elapsed>>

\* time.sleep after a 429 ends; "continue"
UnitRateLimitSleep ==
    /\ program = "unit" /\ u_pc = "sleep429"
    /\ SleepCompletes(RateLimitWait(attempt))
    /\ gpc_log' = LogSleep(RateLimitWait(attempt), TRUE)
    /\ elapsed' = IF alarm = "armed" THEN elapsed + RateLimitWait(attempt)
                  ELSE elapsed
    /\ IF attempt + 1 < max_retries
       THEN /\ attempt' = attempt + 1
            /\ u_pc' = "get"
            /\ UNCHANGED <<gpc_result, u_result>>
       ELSE \* the for loop is over: the final "return None"
            /\ GpcReturnsNone
            /\ UNCHANGED attempt
    /\ UNCHANGED <<procVars, siteVars, pause_file, cfgVars, snapshot_index,
                   match_counter, matches_found, all_matches, pageVars, returned,
                   progress_file, outVars, snapHist, page_requests, listHist,
                   saved_args, in_flight, exit_reason, lsVars, toolVars, u_fetch, alarm, timed_out>>

\* the alarm goes off during the sleep after a 429: TimeoutError inside the try
UnitAlarmInRateLimitSleep ==
    /\ program = "unit" /\ u_pc = "sleep429"
    /\ alarm = "armed"
    /\ alarm' = "fired"
    /\ timed_out' = TRUE
    /\ gpc_log' = LogSleep(RateLimitWait(attempt), FALSE)
    /\ Handler
    /\ UNCHANGED <<procVars, siteVars, pause_file, cfgVars, snapshot_index,
                   match_counter, matches_found, all_matches, pageVars, returned,
                   progress_file, outVars, snapHist, page_requests, listHist,
                   saved_args, in_flight, exit_reason, lsVars, toolVars, u_fetch, attempt, elapsed>>

\* time.sleep of the exception handler ends; next attempt
UnitErrorSleep ==
    /\ program = "unit" /\ u_pc = "sleep_err"
    /\ SleepCompletes(ErrorWait(attempt))
    /\ gpc_log' = LogSleep(ErrorWait(attempt), TRUE)
    /\ elapsed' = IF alarm = "armed" THEN elapsed + ErrorWait(attempt)
                  ELSE elapsed
    /\ attempt' = attempt + 1
    /\ u_pc' = "get"
    /\ UNCHANGED <<procVars, siteVars, pause_file, cfgVars, snapshot_index,
                   match_counter, matches_found, all_matches, pageVars, returned,
                   progress_file, outVars, snapHist, page_requests, listHist,
                   saved_args, in_flight, exit_reason, lsVars, toolVars, u_fetch, alarm, gpc_result,
                   u_result, timed_out>>

\* the alarm goes off during the sleep of the exception handler: TimeoutError
\* leaves get_page_content.  From the match page fetch it reaches
\* "except TimeoutError" of process_match_with_timeout, from the stats page
\* fetch the handler of extract_detailed_stats_from_match_page; either way
\* the unit returns None.
UnitAlarmInErrorSleep ==
    /\ program = "unit" /\ u_pc = "sleep_err"
    /\ alarm = "armed"
    /\ alarm' = "fired"
    /\ timed_out' = TRUE
    /\ gpc_log' = LogSleep(ErrorWait(attempt), FALSE)
    /\ gpc_result' = "raised"
    /\ u_result' = "None"
    /\ u_pc' = "done"
    /\ UNCHANGED <<procVars, siteVars, pause_file, cfgVars, snapshot_index,
                   match_counter, matches_found, all_matches, pageVars, returned,
                   progress_file, outVars, snapHist, page_requests, listHist,
                   saved_args, in_flight, exit_reason, lsVars, toolVars, u_fetch, attempt, elapsed>>

\* process_match between the two fetches: is_best_of_one_or_five,
\* extract_enhanced_data_from_soup and the search for the stats link
UnitExtract ==
    /\ program = "unit" /\ u_pc = "extract"
    /\ \E page \in {"bo1_or_bo5", "no_stats_link", "stats_link"} :
         IF page = "stats_link"
         THEN /\ u_fetch' = 2
              /\ attempt' = 0
              /\ gpc_log' = <<>>
              /\ gpc_result' = "pending"
              /\ u_pc' = "get"
              /\ UNCHANGED u_result
         ELSE /\ u_result' = "None"
              /\ u_pc' = "done"
              /\ UNCHANGED <<u_fetch, attempt, gpc_log, gpc_result>>
    /\ UNCHANGED <<procVars, siteVars, pause_file, cfgVars, snapshot_index,
                   match_counter, matches_found, all_matches, pageVars, returned,
                   progress_file, outVars, snapHist, page_requests, listHist,
                   saved_args, in_flight, exit_reason, lsVars, toolVars, alarm, elapsed, timed_out>>

\* the alarm goes off between the two fetches: inside is_best_of_one_or_five
\* or one of the extract_*_from_soup helpers their own handlers swallow it
\* and the unit goes on; elsewhere it ends the unit with None
UnitAlarmInExtract ==
    /\ program = "unit" /\ u_pc = "extract"
    /\ alarm = "armed"
    /\ alarm' = "fired"
    /\ timed_out' = TRUE
    /\ \E swallowed \in BOOLEAN :
         IF swallowed
         THEN UNCHANGED <<u_pc, u_result>>
         ELSE u_result' = "None" /\ u_pc' = "done"
    /\ UNCHANGED <<procVars, siteVars, pause_file, cfgVars, snapshot_index,
                   match_counter, matches_found, all_matches, pageVars, returned,
                   progress_file, outVars, snapHist, page_requests, listHist,
                   saved_args, in_flight, exit_reason, lsVars, toolVars, u_fetch, attempt, elapsed,
                   gpc_log, gpc_result>>

\* extract_detailed_stats_from_match_page after the stats page arrived
UnitStats ==
    /\ program = "unit" /\ u_pc = "stats"
    /\ \E tables \in {"incomplete", "both"} :
         u_result' = IF tables = "both" THEN "data" ELSE "None"
    /\ u_pc' = "done"
    /\ UNCHANGED <<procVars, siteVars, pause_file, cfgVars, snapshot_index,
                   match_counter, matches_found, all_matches, pageVars, returned,
                   progress_file, outVars, snapHist, page_requests, listHist,
                   saved_args, in_flight, exit_reason, lsVars, toolVars, u_fetch, attempt, alarm,
                   elapsed, gpc_log, gpc_result, timed_out>>

\* the alarm goes off while the stats tables are aggregated: the handler of
\* extract_detailed_stats_from_match_page returns None
UnitAlarmInStats ==
    /\ program = "unit" /\ u_pc = "stats"
    /\ alarm = "armed"
    /\ alarm' = "fired"
    /\ timed_out' = TRUE
    /\ u_result' = "None"
    /\ u_pc' = "done"
    /\ UNCHANGED <<procVars, siteVars, pause_file, cfgVars, snapshot_index,
                   match_counter, matches_found, all_matches, pageVars, returned,
                   progress_file, outVars, snapHist, page_requests, listHist,
                   saved_args, in_flight, exit_reason, lsVars, toolVars, u_fetch, attempt, elapsed,
                   gpc_log, gpc_result>>

(***************************************************************************)
(* Team averages: TeamStatsAggregator.calculate_team_averages and its two  *)
(* copies in the scrapers.  A statistic is a number of hundredths (0.71 is *)
(* 71), None, or Missing when the statistics dict has no such key.         *)
(***************************************************************************)
\* stats_keys
StatKeys == {"DPR", "KAST", "ADR", "KPR", "RATING"}

\* dict.get on a key the dict does not have
Missing == 0 - 2

StatValues == {Missing, None, 0, 1}

\* the value after v in the cycle Missing, None, 0, 1
NextStatValue(v) == IF v = Missing THEN None ELSE IF v = 1 THEN Missing ELSE v + 1

\* statistics dicts whose five entries are not all alike
StatsOf(a, b) ==
    [k \in StatKeys |->
        IF k = "DPR" THEN a
        ELSE IF k = "KAST" THEN b
        ELSE IF k = "ADR" THEN NextStatValue(a)
        ELSE IF k = "KPR" THEN NextStatValue(b)
        ELSE a]

EmptyStats == [k \in StatKeys |-> Missing]

\* player records: the 'statistics' key absent, None, or a dict
PlayerRecords ==
    { [statistics_key |-> "absent", statistics |-> EmptyStats],
      [statistics_key |-> "none", statistics |-> EmptyStats] }
    \cup { [statistics_key |-> "dict", statistics |-> StatsOf(a, b)] :
             a \in StatValues, b \in StatValues }

\* sequences of 0..n elements of S
SeqsUpTo(S, n) == UNION { [1..k -> S] : k \in 0..n }

\* bool(player.get('statistics')): None and the empty dict are falsy
StatisticsTruthy(player) ==
    /\ player.statistics_key = "dict"
    /\ \E k \in StatKeys : player.statistics[k] # Missing

\* player['statistics'].get(stat)
StatGet(player, stat) ==
    IF player.statistics[stat] = Missing THEN None ELSE player.statistics[stat]

RECURSIVE SumOf(_)
SumOf(values) == IF values = <<>> THEN 0 ELSE Head(values) + SumOf(Tail(values))

\* round(mean(values), 2) of a non-empty list of hundredths: the nearest
\* hundredth; a mean on half a hundredth goes where its double lies
RoundedMean(values, up) ==
    LET total == SumOf(values)
        n == Len(values)
        q == total \div n
        r == total % n
    IN  IF 2 * r < n THEN q
        ELSE IF 2 * r > n THEN q + 1
        ELSE IF up THEN q + 1 ELSE q

\* the inner loop: "values" for one stat
RECURSIVE CollectValues(_, _)
CollectValues(ps, stat) ==
    IF ps = <<>> THEN <<>>
    ELSE LET player == Head(ps)
         IN  (IF StatisticsTruthy(player) /\ StatGet(player, stat) # None
              THEN <<player.statistics[stat]>> ELSE <<>>)
             \o CollectValues(Tail(ps), stat)

\* calculate_team_averages with 0 where no player has a value
calculate_team_averages_ZeroForUnknown(ps, up) ==
    [stat \in StatKeys |->
        LET values == CollectValues(ps, stat)
        IN  IF values # <<>> THEN RoundedMean(values, up) ELSE 0]

\* HLTVEnhancedScraper.calculate_team_averages
calculate_team_averages(ps, up) ==
    [stat \in StatKeys |->
        LET values == CollectValues(ps, stat)
        IN  IF values # <<>> THEN RoundedMean(values, up) ELSE None]

\* HLTVUpdateScraper.calculate_team_averages
update_calculate_team_averages(ps, up) ==
    [stat \in StatKeys |->
        LET values == CollectValues(ps, stat)
        IN  IF values # <<>> THEN RoundedMean(values, up) ELSE None]

\* TeamStatsAggregator.calculate_team_averages
aggregator_calculate_team_averages(ps, up) ==
    [stat \in StatKeys |->
        LET values == CollectValues(ps, stat)
        IN  IF values # <<>> THEN RoundedMean(values, up) ELSE None]

NoAverages == [k \in {"aggregator", "update", "enhanced"} |-> EmptyStats]

\* one call of each copy on the same players
CalculateTeamAverages ==
    /\ program = "averages" /\ pc = "idle"
    /\ team_averages' =
         [k \in {"aggregator", "update", "enhanced"} |->
            IF k = "aggregator" THEN aggregator_calculate_team_averages(players, half_up)
            ELSE IF k = "update" THEN update_calculate_team_averages(players, half_up)
            ELSE calculate_team_averages(players, half_up)]
    /\ pc' = "exited"
    /\ UNCHANGED <<program, crawlVars, players, half_up, rowVars, scoreVars,
                   appendVars, forfeitVars, updUnitVars, launchVars,
                   dispatchVars,
                   cellVars,
                   combineVars>>

(***************************************************************************)
(* CSV rows: HLTVUpdateScraper.get_csv_headers / convert_match_to_csv_row  *)
(* and JSONToCSVConverter.get_csv_headers / get_team_stats /               *)
(* get_player_stats / convert_match_to_row.  A dict is a function of its   *)
(* keys (csv.DictWriter writes a row by field name, not by position).      *)
(***************************************************************************)
\* ['DPR', 'KAST', 'ADR', 'KPR', 'RATING'] in list order
StatList == <<"DPR", "KAST", "ADR", "KPR", "RATING">>

\* the dict a sequence of assignments d[key] = value leaves: a function of
\* the keys assigned, each with the value of its last assignment
DictOf(items) ==
    [key \in { items[i][1] : i \in 1..Len(items) } |->
        items[CHOOSE i \in 1..Len(items) :
                /\ items[i][1] = key
                /\ \A j \in (i + 1)..Len(items) : items[j][1] # key][2]]

\* row.update(other) on the dict d
DictUpdate(d, other) == [key \in DOMAIN d \cup DOMAIN other |->
                            IF key \in DOMAIN other THEN other[key] ELSE d[key]]

DictKeys(d) == DOMAIN d

DictValue(d, key) == d[key]

EmptyDict == DictOf(<<>>)

\* the players a team record can list: name and statistics present or not
CsvPlayerShapes ==
    << [name_key |-> TRUE, name |-> "s1mple",
        statistics_key |-> "dict", statistics |-> StatsOf(0, 1)],
       [name_key |-> FALSE, name |-> "",
        statistics_key |-> "dict", statistics |-> StatsOf(1, None)],
       [name_key |-> TRUE, name |-> "ZywOo",
        statistics_key |-> "absent", statistics |-> EmptyStats],
       [name_key |-> TRUE, name |-> "NiKo",
        statistics_key |-> "dict", statistics |-> EmptyStats] >>

\* rosters of 0..MaxRoster players
Rosters ==
    { [i \in 1..n |-> CsvPlayerShapes[((i + shift) % Len(CsvPlayerShapes)) + 1]] :
        n \in 0..MaxRoster, shift \in 0..(Len(CsvPlayerShapes) - 1) }

\* what match.get('team1', {}) finds when the match has no such key
EmptyTeam ==
    [team_key |-> FALSE, name_key |-> FALSE, averages_key |-> FALSE, players |-> <<>>]

Teams ==
    {EmptyTeam}
    \cup { [team_key |-> TRUE, name_key |-> TRUE,
             averages_key |-> (Len(r) % 2 = 0), players |-> r] : r \in Rosters }

\* match records: the basic and metadata keys all present or all absent
Matches == [basic : BOOLEAN, team1 : Teams, team2 : Teams]

\* f'Player_{player_num}'
PlaceholderName(player_num) == "Player_" \o ToString(player_num)

\* f'{team_prefix}_player_{player_num}_{field}'
PlayerKey(team_prefix, player_num, field) ==
    team_prefix \o "_player_" \o ToString(player_num) \o "_" \o field

\* f'{team_prefix}_avg_{stat}'
AverageKey(team_prefix, stat) == team_prefix \o "_avg_" \o stat

\* the first headers.extend: basic match info
BasicHeaders ==
    << "match_id", "hltv_match_id", "date", "tournament", "winner",
       "score_team1", "score_team2", "match_type", "event_type",
       "scraped_date", "hltv_url", "match_number" >>

\* headers.extend for the team info
TeamHeaders(team_prefix) ==
    << team_prefix \o "_name" >>
    \o [s \in 1..Len(StatList) |-> AverageKey(team_prefix, StatList[s])]

\* headers.extend in "for player_num in range(1, 6)", from player_num on
RECURSIVE PlayerHeaders(_, _)
PlayerHeaders(team_prefix, player_num) ==
    IF player_num >= RosterSlots + 1 THEN <<>>
    ELSE << PlayerKey(team_prefix, player_num, "name") >>
         \o [s \in 1..Len(StatList) |-> PlayerKey(team_prefix, player_num, StatList[s])]
         \o PlayerHeaders(team_prefix, player_num + 1)

\* HLTVUpdateScraper.get_csv_headers
get_csv_headers ==
    BasicHeaders
    \o TeamHeaders("team1") \o PlayerHeaders("team1", 1)
    \o TeamHeaders("team2") \o PlayerHeaders("team2", 1)

\* JSONToCSVConverter.get_csv_headers
converter_get_csv_headers ==
    BasicHeaders
    \o TeamHeaders("team1") \o PlayerHeaders("team1", 1)
    \o TeamHeaders("team2") \o PlayerHeaders("team2", 1)

\* the seven match.get / metadata.get assignments and the five of the
\* metadata: '' or None where the key is absent
BasicItems(match) ==
    [i \in 1..Len(BasicHeaders) |->
        << BasicHeaders[i],
           IF BasicHeaders[i] \in {"score_team1", "score_team2", "match_number"}
           THEN (IF match.basic THEN 2 ELSE None)
           ELSE (IF match.basic THEN "v" ELSE "") >>]

\* team_data.get('name', '') and the loop over team_averages.get(stat, None)
TeamItems(team_data, team_prefix) ==
    << << team_prefix \o "_name", IF team_data.name_key THEN "Vitality" ELSE "" >> >>
    \o [s \in 1..Len(StatList) |->
          << AverageKey(team_prefix, StatList[s]),
             IF team_data.averages_key THEN s ELSE None >>]

\* the player loop run over the players found instead of over five slots
RECURSIVE PlayerItems_PerPlayerFound(_, _, _)
PlayerItems_PerPlayerFound(team_players, team_prefix, i) ==
    IF i >= Len(team_players) THEN <<>>
    ELSE LET player_num == i + 1
             player == team_players[i + 1]
             player_name == IF player.name_key THEN player.name
                            ELSE PlaceholderName(player_num)
             player_stats == IF player.statistics_key = "dict"
                             THEN player.statistics ELSE EmptyStats
         IN  << << PlayerKey(team_prefix, player_num, "name"), player_name >> >>
             \o [s \in 1..Len(StatList) |->
                   << PlayerKey(team_prefix, player_num, StatList[s]),
                      IF player_stats[StatList[s]] = Missing THEN None
                      ELSE player_stats[StatList[s]] >>]
             \o PlayerItems_PerPlayerFound(team_players, team_prefix, i + 1)

\* the body of "for i in range(5)" for the players with index i and above
RECURSIVE PlayerItems(_, _, _)
PlayerItems(team_players, team_prefix, i) ==
    IF i >= RosterSlots THEN <<>>
    ELSE LET player_num == i + 1
             found == i < Len(team_players)
             player == team_players[i + 1]
             player_name == IF found /\ player.name_key THEN player.name
                            ELSE PlaceholderName(player_num)
             player_stats == IF found /\ player.statistics_key = "dict"
                             THEN player.statistics ELSE EmptyStats
         IN  << << PlayerKey(team_prefix, player_num, "name"), player_name >> >>
             \o [s \in 1..Len(StatList) |->
                   << PlayerKey(team_prefix, player_num, StatList[s]),
                      IF player_stats[StatList[s]] = Missing THEN None
                      ELSE player_stats[StatList[s]] >>]
             \o PlayerItems(team_players, team_prefix, i + 1)

\* JSONToCSVConverter.get_player_stats
get_player_stats(team_players, team_prefix) ==
    DictOf(PlayerItems(team_players, team_prefix, 0))

\* JSONToCSVConverter.get_team_stats
get_team_stats(team_data, team_prefix) ==
    DictOf(TeamItems(team_data, team_prefix))

\* match.get('team1', {}), team_data.get('players', [])
TeamData(team) == IF team.team_key THEN team ELSE EmptyTeam

\* HLTVUpdateScraper.convert_match_to_csv_row
convert_match_to_csv_row(match) ==
    LET team1_data == TeamData(match.team1)
        team2_data == TeamData(match.team2)
    IN  DictOf(BasicItems(match)
               \o TeamItems(team1_data, "team1")
               \o PlayerItems(team1_data.players, "team1", 0)
               \o TeamItems(team2_data, "team2")
               \o PlayerItems(team2_data.players, "team2", 0))

\* JSONToCSVConverter.convert_match_to_row
convert_match_to_row(match) ==
    LET team1_data == TeamData(match.team1)
        team2_data == TeamData(match.team2)
        row0 == DictOf(BasicItems(match))
        row1 == DictUpdate(row0, get_team_stats(team1_data, "team1"))
        row2 == DictUpdate(row1, get_player_stats(team1_data.players, "team1"))
        row3 == DictUpdate(row2, get_team_stats(team2_data, "team2"))
    IN  DictUpdate(row3, get_player_stats(team2_data.players, "team2"))

NoMatch == [basic |-> FALSE, team1 |-> EmptyTeam, team2 |-> EmptyTeam]

\* one match record converted by both scripts
ConvertMatch ==
    /\ program = "csvrow" /\ pc = "idle"
    /\ update_row' = convert_match_to_csv_row(csv_match)
    /\ converter_row' = convert_match_to_row(csv_match)
    /\ pc' = "exited"
    /\ UNCHANGED <<program, crawlVars, avgVars, csv_match, scoreVars, appendVars,
                   forfeitVars, updUnitVars, launchVars,
                   dispatchVars,
                   cellVars,
                   combineVars>>

(***************************************************************************)
(* Score texts: the parsing statements of extract_match_info (enhanced and *)
(* update scraper) and of the snapshot loop, and the winner they derive.   *)
(***************************************************************************)
ScoreChars == {"1", "2", " ", "-", ":"}

\* the score texts a listing or a snapshot entry can carry
ScoreTexts == SeqsUpTo(ScoreChars, MaxScoreLen)

\* "Determine winner"
Winner(team1_score, team2_score) ==
    IF team1_score > team2_score THEN "team1"
    ELSE IF team2_score > team1_score THEN "team2"
    ELSE "tie"

\* the score and winner entries of match_info: <<team1_score, team2_score,
\* winner>>, or <<>> when the unit ends without a match_info
ScoreEntries(has_info, team1_score, team2_score) ==
    IF has_info THEN <<team1_score, team2_score, Winner(team1_score, team2_score)>>
    ELSE <<>>

\* HLTVEnhancedScraper.extract_match_info on a listing item with this score
enhanced_score(text) ==
    LET match_info == extract_match_info(<<1, text>>, 0)
    IN  IF match_info = <<>> THEN ScoreEntries(FALSE, 0, 0)
        ELSE ScoreEntries(TRUE, match_info[2], match_info[3])

\* HLTVUpdateScraper.extract_match_info on a listing item with this score
update_score(text) ==
    LET match_info == update_extract_match_info(<<1, text>>, 0)
    IN  IF match_info = <<>> THEN ScoreEntries(FALSE, 0, 0)
        ELSE ScoreEntries(TRUE, match_info[2], match_info[3])

\* the snapshot loop on a snapshot entry with this score
snapshot_score(text) ==
    LET pair == ParseSnapshotScore(text)
    IN  IF pair = <<>> THEN ScoreEntries(FALSE, 0, 0)
        ELSE ScoreEntries(TRUE, pair[1], pair[2])

NoScores == [k \in {"enhanced", "update", "snapshot"} |-> <<>>]

\* one score text handed to the three parsing statements
ParseScore ==
    /\ program = "score" /\ pc = "idle"
    /\ score_results' =
         [k \in {"enhanced", "update", "snapshot"} |->
            IF k = "enhanced" THEN enhanced_score(result_score)
            ELSE IF k = "update" THEN update_score(result_score)
            ELSE snapshot_score(result_score)]
    /\ pc' = "exited"
    /\ UNCHANGED <<program, crawlVars, avgVars, rowVars, result_score, appendVars,
                   forfeitVars, updUnitVars, launchVars,
                   dispatchVars,
                   cellVars,
                   combineVars>>

(***************************************************************************)
(* HLTVUpdateScraper.append_to_csv.  A CSV file is its header line and its *)
(* data rows, a cell being the string csv.writer puts in the file.         *)
(***************************************************************************)
\* the keys under which a row dict holds a number or None
NumericKeys ==
    {"score_team1", "score_team2", "match_number"}
    \cup { AverageKey(t, stat) : t \in {"team1", "team2"}, stat \in StatKeys }
    \cup { PlayerKey(t, n, stat) :
             t \in {"team1", "team2"}, n \in 1..RosterSlots, stat \in StatKeys }

\* the cell csv.writer writes for a value: None becomes the empty string
CsvCell(key, value) ==
    IF key \in NumericKeys
    THEN (IF value = None THEN "" ELSE ToString(value))
    ELSE value

\* the set of the elements of a sequence
Range(seq) == { seq[i] : i \in 1..Len(seq) }

\* a row dict as csv.DictReader returns it (every value a string) and as
\* convert_match_to_csv_row builds it
ReadRow(d) == [strings |-> TRUE, dict |-> d]
BuiltRow(d) == [strings |-> FALSE, dict |-> d]

\* DictWriter._dict_to_list: the cells of one row, restval '' for a field the
\* dict lacks (the dict has no key outside fieldnames)
dict_to_list(fieldnames, row) ==
    [key \in Range(fieldnames) |->
        IF key \notin DictKeys(row.dict) THEN ""
        ELSE IF row.strings THEN row.dict[key]
        ELSE CsvCell(key, row.dict[key])]

\* "wrong_fields = rowdict.keys() - self.fieldnames" is not empty: ValueError
WrongFields(fieldnames, row) == DictKeys(row.dict) \ Range(fieldnames) # {}

\* writer.writerows(all_rows): the rows written before the first row that
\* raises, and whether one raised
RECURSIVE writerows(_, _)
writerows(fieldnames, all_rows) ==
    IF all_rows = <<>> THEN [rows |-> <<>>, raised |-> FALSE]
    ELSE IF WrongFields(fieldnames, Head(all_rows))
    THEN [rows |-> <<>>, raised |-> TRUE]
    ELSE LET rest == writerows(fieldnames, Tail(all_rows))
         IN  [rows |-> <<dict_to_list(fieldnames, Head(all_rows))>> \o rest.rows,
              raised |-> rest.raised]

\* the header lines an existing hltv_matches.csv can have: the converter's,
\* the converter's with a column added by hand, and another tool's
ForeignHeader == <<"match_id", "winner", "map_name">>

ExistingHeaders ==
    { get_csv_headers, Append(get_csv_headers, "notes"), ForeignHeader }

\* the n-th data row of an existing file with this header
ExistingRow(header, n) == [key \in Range(header) |-> "old" \o ToString(n)]

ExistingFiles ==
    { [header |-> h, rows |-> [n \in 1..k |-> ExistingRow(h, n)]] :
        h \in ExistingHeaders, k \in 0..MaxExistingRows }

\* the match records scrape_new_matches can return
NewMatchShapes ==
    { [basic |-> TRUE,
       team1 |-> [team_key |-> TRUE, name_key |-> TRUE, averages_key |-> TRUE,
                  players |-> [i \in 1..RosterSlots |-> CsvPlayerShapes[1]]],
       team2 |-> [team_key |-> TRUE, name_key |-> TRUE, averages_key |-> TRUE,
                  players |-> [i \in 1..(RosterSlots + 1) |-> CsvPlayerShapes[4]]]],
      [basic |-> TRUE,
       team1 |-> [team_key |-> TRUE, name_key |-> TRUE, averages_key |-> FALSE,
                  players |-> [i \in 1..RosterSlots |-> CsvPlayerShapes[4]]],
       team2 |-> [team_key |-> TRUE, name_key |-> TRUE, averages_key |-> TRUE,
                  players |-> [i \in 1..RosterSlots |-> CsvPlayerShapes[1]]]] }

\* append_to_csv: the file it leaves and whether it raised
append_to_csv(match_list, existing) ==
    IF match_list = <<>> THEN [file |-> existing, raised |-> FALSE]
    ELSE LET headers == IF existing # NoFile THEN existing[1].header
                        ELSE get_csv_headers
             existing_rows == IF existing # NoFile
                              THEN [i \in 1..Len(existing[1].rows) |->
                                      ReadRow(existing[1].rows[i])]
                              ELSE <<>>
             new_rows == [i \in 1..Len(match_list) |->
                            BuiltRow(convert_match_to_csv_row(match_list[i]))]
             all_rows == new_rows \o existing_rows
             written == writerows(headers, all_rows)
         IN  [file |-> FileOf([header |-> headers, rows |-> written.rows]),
              raised |-> written.raised]

\* one call of append_to_csv on the CSV file
AppendToCsv ==
    /\ program = "append" /\ pc = "idle"
    /\ LET done == append_to_csv(new_matches, existing_csv)
       IN  /\ csv_file' = done.file
           /\ append_raised' = done.raised
    /\ pc' = "exited"
    /\ UNCHANGED <<program, crawlVars, avgVars, rowVars, scoreVars,
                   new_matches, existing_csv, forfeitVars, updUnitVars, launchVars,
                   dispatchVars,
                   cellVars,
                   combineVars>>

(***************************************************************************)
(* The forfeit check: is_match_forfeited of the enhanced and the update    *)
(* scraper and the check at the head of a snapshot unit.                   *)
(***************************************************************************)
\* score texts handed to the check, as get_text().strip() yields them: the
\* forms of the snapshot and the listing and every text of zeros, ones,
\* blanks and dashes
ForfeitCheckScores ==
    SnapshotScores \cup ListingScores
    \cup { <<"1", " ", "-", " ", "0">>, <<"0", " ", "-", " ", "1">> }
    \cup { t \in SeqsUpTo({"0", "1", " ", "-"}, MaxScoreLen) : Strip(t) = t }

\* the match page requested for the check: not loaded, with the word
\* 'forfeit' in its summary text, or without
ForfeitPages == {"unreachable", "forfeit", "plain"}

\* the check of the snapshot loop: the unit is skipped as a forfeit
snapshot_forfeit_check(score, page) ==
    IF score \in ForfeitScores
    THEN page # "unreachable" /\ page = "forfeit"
    ELSE FALSE

NoVerdicts == [k \in {"enhanced", "update", "snapshot"} |-> FALSE]

\* one match handed to the three checks
CheckForfeit ==
    /\ program = "forfeit" /\ pc = "idle"
    /\ forfeit_verdicts' =
         [k \in {"enhanced", "update", "snapshot"} |->
            IF k = "enhanced" THEN is_match_forfeited(result_score, check_page)[1]
            ELSE IF k = "update"
            THEN update_is_match_forfeited(result_score, check_page)[1]
            ELSE snapshot_forfeit_check(result_score, check_page)]
    /\ pc' = "exited"
    /\ UNCHANGED <<program, crawlVars, avgVars, rowVars, result_score,
                   score_results, appendVars, check_page, updUnitVars, launchVars,
                   dispatchVars,
                   cellVars,
                   combineVars>>

(***************************************************************************)
(* One listing item of the update scraper after the forfeit check: the     *)
(* team URLs, the two rosters, the player statistics, the team averages    *)
(* and the record (HLTVUpdateScraper.scrape_new_matches, the body of the   *)
(* for loop).                                                              *)
(***************************************************************************)
\* "if len(team1_players) < 5"
MinRoster == 5

\* what the site serves for the unit: whether the match page links each
\* team, how many players each team page lists, whether the statistics
\* pages load
UnitSites ==
    [team1_url : BOOLEAN, team2_url : BOOLEAN,
     roster1 : 0..MaxRoster, roster2 : 0..MaxRoster,
     stats_pages : {"loaded", "failed"}]

\* scrape_team_players: the players of a team page, not yet with statistics
scrape_team_players(n) ==
    [i \in 1..n |-> [name |-> i, statistics_key |-> "absent", statistics |-> EmptyStats]]

\* scrape_player_stats: all five keys, None where nothing was read
update_scrape_player_stats(stats_pages) ==
    [k \in StatKeys |->
        IF stats_pages = "loaded" /\ k # "KPR" THEN 1 ELSE None]

\* "for player in team1_players: player['statistics'] = ..."
WithStatistics(team_players, stats_pages) ==
    [i \in 1..Len(team_players) |->
        [team_players[i] EXCEPT !.statistics_key = "dict",
                                !.statistics = update_scrape_player_stats(stats_pages)]]

NoCalls == [team_urls |-> 0, team_players |-> 0, player_stats |-> 0, averages |-> 0]

\* the unit with the second roster taken as it comes
update_unit_SecondRosterUnchecked(site, found, up) ==
    IF ~(site.team1_url /\ site.team2_url)
    THEN [matches |-> found, calls |-> [NoCalls EXCEPT !.team_urls = 1]]
    ELSE IF site.roster1 < MinRoster
    THEN [matches |-> found,
          calls |-> [NoCalls EXCEPT !.team_urls = 1, !.team_players = 1]]
    ELSE LET team1_players == WithStatistics(scrape_team_players(site.roster1),
                                             site.stats_pages)
             team2_players == WithStatistics(scrape_team_players(site.roster2),
                                             site.stats_pages)
             match_data ==
                 [team1 |-> [team_averages |->
                                update_calculate_team_averages(team1_players, up),
                             players |-> team1_players],
                  team2 |-> [team_averages |->
                                update_calculate_team_averages(team2_players, up),
                             players |-> team2_players]]
         IN  [matches |-> Append(found, match_data),
              calls |-> [team_urls |-> 1, team_players |-> 2,
                         player_stats |-> site.roster1 + site.roster2,
                         averages |-> 2]]

\* the body of the for loop from "Get team URLs" to all_new_matches.append:
\* all_new_matches afterwards, and the calls made
update_unit(site, found, up) ==
    IF ~(site.team1_url /\ site.team2_url)
    THEN \* continue
         [matches |-> found, calls |-> [NoCalls EXCEPT !.team_urls = 1]]
    ELSE IF site.roster1 < MinRoster
    THEN \* continue
         [matches |-> found,
          calls |-> [NoCalls EXCEPT !.team_urls = 1, !.team_players = 1]]
    ELSE IF site.roster2 < MinRoster
    THEN \* continue
         [matches |-> found,
          calls |-> [NoCalls EXCEPT !.team_urls = 1, !.team_players = 2]]
    ELSE LET team1_players == WithStatistics(scrape_team_players(site.roster1),
                                             site.stats_pages)
             team2_players == WithStatistics(scrape_team_players(site.roster2),
                                             site.stats_pages)
             match_data ==
                 [team1 |-> [team_averages |->
                                update_calculate_team_averages(team1_players, up),
                             players |-> team1_players],
                  team2 |-> [team_averages |->
                                update_calculate_team_averages(team2_players, up),
                             players |-> team2_players]]
         IN  [matches |-> Append(found, match_data),
              calls |-> [team_urls |-> 1, team_players |-> 2,
                         player_stats |-> site.roster1 + site.roster2,
                         averages |-> 2]]

DefaultUnitSite ==
    [team1_url |-> TRUE, team2_url |-> TRUE, roster1 |-> 0, roster2 |-> 0,
     stats_pages |-> "loaded"]

\* one item processed with all_new_matches empty
ProcessUpdateUnit ==
    /\ program = "updateunit" /\ pc = "idle"
    /\ LET done == update_unit(unit_site, <<>>, half_up)
       IN  /\ all_new_matches' = done.matches
           /\ unit_calls' = done.calls
    /\ pc' = "exited"
    /\ UNCHANGED <<program, crawlVars, avgVars, rowVars, scoreVars, appendVars,
                   forfeitVars, unit_site, launchVars,
                   dispatchVars,
                   cellVars,
                   combineVars>>

(***************************************************************************)
(* run_10k_scraper.py: the launcher that creates the snapshot if need be   *)
(* and runs the enhanced scraper on it as a child process.                 *)
(***************************************************************************)
\* the command line: --resume, --snapshot-only, --scrape-only
LaunchArgs == [resume : BOOLEAN, snapshot_only : BOOLEAN, scrape_only : BOOLEAN]

NoLaunchArgs == [resume |-> FALSE, snapshot_only |-> FALSE, scrape_only |-> FALSE]

\* the snapshot file before the launch: missing, with fewer than 80% of the
\* ids asked for, or valid
SnapshotsOnDisk == {"missing", "short", "valid"}

\* Scraper10KLauncher.check_snapshot_validity
check_snapshot_validity == snapshot_on_disk = "valid"

\* main and Scraper10KLauncher.run down to the subprocess.run of
\* run_scraper: pc = "idle" when the enhanced scraper is about to start
launcher_run ==
    /\ program = "snapshot"
    /\ pc \in {"shell", "exited", "launch_exit"}
    /\ runs < MaxRuns
    /\ \E args \in LaunchArgs, created \in BOOLEAN :
         LET phase1 == ~args.scrape_only
             create == phase1 /\ ~(args.resume \/ check_snapshot_validity)
             on_disk == IF create /\ created THEN "valid" ELSE snapshot_on_disk
         IN  /\ launch_args' = args
             /\ snapshot_on_disk' = on_disk
             /\ pc' = IF create /\ ~created THEN "launch_exit"
                      ELSE IF args.snapshot_only THEN "launch_exit"
                      ELSE IF on_disk = "missing" THEN "launch_exit"
                      ELSE "idle"
    /\ UNCHANGED <<program, crawlVars, avgVars, rowVars, scoreVars, appendVars,
                   forfeitVars, updUnitVars,
                   dispatchVars,
                   cellVars,
                   combineVars>>

(***************************************************************************)
(* run_scraper.py: the dispatcher, with the load_data of the aggregator    *)
(* and the converter.  A process ends by main returning a value to         *)
(* exit(), by sys.exit, or by an exception nobody catches (the interpreter *)
(* prints the traceback and exits with status 1).                          *)
(***************************************************************************)
\* choices of the "scraper" argument
Commands == {"blast", "largescale", "test", "results", "aggregate", "csv", "update"}

\* the input file as open and json.load find it
InputFiles == {"missing", "invalid_json", "unreadable", "not_utf8", "valid"}

\* one command line and what the process finds: --input absent, empty or a
\* path; --target_match_id absent, 0 or a match id; the input file; whether
\* the output can be written; whether the scraping operation runs through
DispatchInputs ==
    [scraper : Commands,
     input : {"absent", "empty", "given"},
     target_match_id : {"absent", "zero", "id"},
     file : InputFiles,
     output : {"writable", "unwritable"},
     operation : {"completes", "raises"}]

NoDispatch ==
    [scraper |-> "blast", input |-> "absent", target_match_id |-> "absent",
     file |-> "valid", output |-> "writable", operation |-> "completes"]

\* how a process ended: the exit status, whether the selected operation
\* was started, and by what the process ended
Ended(code, op_started, how) == [exit_code |-> code, started |-> op_started, via |-> how]

NotEnded == Ended(None, FALSE, "running")

\* an exception that reaches the top of the interpreter
Uncaught(op_started) == Ended(1, op_started, "uncaught")

\* load_data that takes a file it cannot parse for an empty document
aggregator_load_data_Lenient(file) ==
    IF file = "missing" THEN "exit1"
    ELSE IF file = "invalid_json" THEN "data"
    ELSE IF file \in {"unreadable", "not_utf8"} THEN "raises"
    ELSE "data"

\* TeamStatsAggregator.load_data: FileNotFoundError and JSONDecodeError are
\* caught and end in sys.exit(1); any other error of open or json.load is
\* not caught
aggregator_load_data(file) ==
    IF file = "missing" THEN "exit1"
    ELSE IF file = "invalid_json" THEN "exit1"
    ELSE IF file \in {"unreadable", "not_utf8"} THEN "raises"
    ELSE "data"

\* JSONToCSVConverter.load_data
converter_load_data(file) ==
    IF file = "missing" THEN "exit1"
    ELSE IF file = "invalid_json" THEN "exit1"
    ELSE IF file \in {"unreadable", "not_utf8"} THEN "raises"
    ELSE "data"

\* run_aggregator: TeamStatsAggregator.run, then "return 0"
run_aggregator(in) ==
    LET loaded == aggregator_load_data(in.file)
    IN  IF loaded = "exit1" THEN Ended(1, TRUE, "sys.exit")
        ELSE IF loaded = "raises" THEN Uncaught(TRUE)
        ELSE IF in.output = "unwritable" THEN Ended(1, TRUE, "sys.exit")
        ELSE Ended(0, TRUE, "return")

\* run_csv_converter: JSONToCSVConverter.run, then "return 0"
run_csv_converter(in) ==
    LET loaded == converter_load_data(in.file)
    IN  IF loaded = "exit1" THEN Ended(1, TRUE, "sys.exit")
        ELSE IF loaded = "raises" THEN Uncaught(TRUE)
        ELSE IF in.output = "unwritable" THEN Ended(1, TRUE, "sys.exit")
        ELSE Ended(0, TRUE, "return")

\* run_update_scraper: HLTVUpdateScraper.run, then "return 0"
run_update_scraper(in) ==
    IF in.operation = "raises" THEN Uncaught(TRUE) ELSE Ended(0, TRUE, "return")

\* run_blast_scraper: main of hltv_BLASTscrape catches what the scrape raises
run_blast_scraper(in) ==
    IF in.operation = "raises" THEN Ended(1, TRUE, "return") ELSE Ended(0, TRUE, "return")

\* run_largescale_scraper: HLTVLargeScaleScraper takes no target_matches
\* argument, the constructor call raises TypeError outside the try
run_largescale_scraper(in) == Uncaught(FALSE)

\* run_test_scraper
run_test_scraper(in) ==
    IF in.operation = "raises" THEN Ended(1, TRUE, "return") ELSE Ended(0, TRUE, "return")

\* run_results_scraper: the import of hltv_resultsscrape fails, the
\* repository has no such module
run_results_scraper(in) == Uncaught(FALSE)

\* main of run_scraper.py, down to exit(main())
dispatcher_main(in) ==
    IF in.scraper = "blast" THEN run_blast_scraper(in)
    ELSE IF in.scraper = "largescale" THEN run_largescale_scraper(in)
    ELSE IF in.scraper = "test" THEN run_test_scraper(in)
    ELSE IF in.scraper = "results" THEN run_results_scraper(in)
    ELSE IF in.scraper = "aggregate"
    THEN (IF in.input \in {"absent", "empty"} THEN Ended(1, FALSE, "return")
          ELSE run_aggregator(in))
    ELSE IF in.scraper = "csv"
    THEN (IF in.input \in {"absent", "empty"} THEN Ended(1, FALSE, "return")
          ELSE run_csv_converter(in))
    ELSE (IF in.target_match_id \in {"absent", "zero"} THEN Ended(1, FALSE, "return")
          ELSE run_update_scraper(in))

\* one run of "python run_scraper.py ..."
Dispatch ==
    /\ program = "dispatch" /\ pc = "idle"
    /\ dispatch_end' = dispatcher_main(dispatch_in)
    /\ pc' = "exited"
    /\ UNCHANGED <<program, crawlVars, avgVars, rowVars, scoreVars, appendVars,
                   forfeitVars, updUnitVars, launchVars, dispatch_in,
                   cellVars,
                   combineVars>>

(***************************************************************************)
(* Numeric cells of the statistics tables: safe_int,                       *)
(* parse_parenthetical_primary and parse_percentage_value of the enhanced  *)
(* scraper.  A result is None or a number; "raised" tells that the call    *)
(* ended in an exception instead of a return.                              *)
(***************************************************************************)
CellChars == {"1", ",", "-", "+", "%", "(", ")", " "}

\* cell texts: every text of up to MaxCellLen characters, alone and after
\* the opening of a parenthetical value
CellTexts ==
    { prefix \o t : prefix \in { <<>>, <<"1", "(">> },
                    t \in SeqsUpTo(CellChars, MaxCellLen) }

NoneResult == [none |-> TRUE, value |-> 0, raised |-> FALSE]
NumberResult(n) == [none |-> FALSE, value |-> n, raised |-> FALSE]
RaisedResult == [none |-> TRUE, value |-> 0, raised |-> TRUE]

\* str.replace(c, '')
RECURSIVE RemoveChar(_, _)
RemoveChar(t, c) ==
    IF Len(t) = 0 THEN <<>>
    ELSE IF t[1] = c THEN RemoveChar(Tail(t), c)
    ELSE <<t[1]>> \o RemoveChar(Tail(t), c)

\* int(text) and float(text) on texts of digits, signs and blanks: blanks
\* around are ignored, one sign may lead, at least one digit follows;
\* anything else is a ValueError
NumberOf(text) ==
    LET d == Strip(text)
        signed == Len(d) > 0 /\ d[1] \in {"+", "-"}
        digits == IF signed THEN Tail(d) ELSE d
    IN  IF Len(digits) > 0 /\ \A i \in 1..Len(digits) : IsDigit(digits[i])
        THEN NumberResult(IF signed /\ d[1] = "-" THEN 0 - TextToNat(digits)
                          ELSE TextToNat(digits))
        ELSE RaisedResult

\* "try: ... except: return None"
ExceptReturnsNone(result) == IF result.raised THEN NoneResult ELSE result

\* safe_int without the replace(',', '')
safe_int_KeepsCommas(value) ==
    LET cleaned == Strip(value)
    IN  IF cleaned = <<>> \/ cleaned = <<"-">> THEN NoneResult
        ELSE ExceptReturnsNone(NumberOf(cleaned))

\* HLTVEnhancedScraper.safe_int
safe_int(value) ==
    LET cleaned == Strip(RemoveChar(value, ","))
    IN  IF cleaned = <<>> \/ cleaned = <<"-">> THEN NoneResult
        ELSE ExceptReturnsNone(NumberOf(cleaned))

\* the index of the first character of t at or after i that is not in S
\* (Len(t) + 1 when there is none)
FirstNotIn(t, i, S) ==
    IF \A k \in i..Len(t) : t[k] \in S THEN Len(t) + 1
    ELSE CHOOSE k \in i..Len(t) : t[k] \notin S /\ \A j \in i..(k - 1) : t[j] \in S

Digits == { DigitChar[d] : d \in 1..10 }

\* re.match(r'(-?\d+)\(([-\d]+)\)', cleaned): group 1, or <<>> when the
\* text does not begin with a match
MatchParenthetical(cleaned) ==
    LET i == IF Len(cleaned) > 0 /\ cleaned[1] = "-" THEN 2 ELSE 1
        j == FirstNotIn(cleaned, i, Digits)
        k == FirstNotIn(cleaned, j + 1, Digits \cup {"-"})
    IN  IF /\ j > i /\ j <= Len(cleaned) /\ cleaned[j] = "("
           /\ k > j + 1 /\ k <= Len(cleaned) /\ cleaned[k] = ")"
        THEN SubSeq(cleaned, 1, j - 1)
        ELSE <<>>

\* HLTVEnhancedScraper.parse_parenthetical_primary
parse_parenthetical_primary(value) ==
    IF value = <<>> THEN NoneResult
    ELSE LET group1 == MatchParenthetical(RemoveSpaces(value))
         IN  IF group1 # <<>> THEN safe_int(group1) ELSE safe_int(value)

\* HLTVEnhancedScraper.parse_percentage_value
parse_percentage_value(value) ==
    IF value = <<>> THEN NoneResult
    ELSE LET cleaned == Strip(value)
         IN  IF cleaned = <<>> \/ cleaned = <<"-">> THEN NoneResult
             ELSE LET sign == IF cleaned[1] = "-" THEN 0 - 1 ELSE 1
                      unsigned == IF cleaned[1] \in {"+", "-"} THEN Tail(cleaned)
                                  ELSE cleaned
                      number == Strip(RemoveChar(unsigned, "%"))
                      parsed == NumberOf(number)
                  IN  IF number = <<>> THEN NoneResult
                      ELSE IF parsed.raised THEN NoneResult
                      ELSE NumberResult(sign * parsed.value)

NoCells == [k \in {"safe_int", "parenthetical", "percentage"} |-> NoneResult]

\* the three parsers applied to one cell text
ParseCell ==
    /\ program = "cell" /\ pc = "idle"
    /\ cell_results' =
         [k \in {"safe_int", "parenthetical", "percentage"} |->
            IF k = "safe_int" THEN safe_int(cell_text)
            ELSE IF k = "parenthetical" THEN parse_parenthetical_primary(cell_text)
            ELSE parse_percentage_value(cell_text)]
    /\ pc' = "exited"
    /\ UNCHANGED <<program, crawlVars, avgVars, rowVars, scoreVars, appendVars,
                   forfeitVars, updUnitVars, launchVars, dispatchVars, cell_text,
                   combineVars>>

(***************************************************************************)
(* combine_checkpoints.py: the checkpoint CSV files of data/enhanced read  *)
(* with pandas, concatenated and freed of duplicate match ids.  A file is  *)
(* the list of the match ids of its data rows, the header row aside.       *)
(***************************************************************************)
\* match ids in the checkpoint files
CheckpointIds == 1..2

\* a checkpoint file: pd.read_csv raises, or yields the data rows
CheckpointFiles ==
    { [readable |-> FALSE, rows |-> <<>>] }
    \cup { [readable |-> TRUE, rows |-> r] : r \in SeqsUpTo(CheckpointIds, MaxCheckpointRows) }

\* sorted(glob.glob(pattern))
CheckpointDirs == SeqsUpTo(CheckpointFiles, MaxCheckpointFiles)

\* df.iloc[1:]
ILocFromOne(rows) == IF rows = <<>> THEN <<>> ELSE Tail(rows)

\* the for loop over the files from index i on (i counts from 0):
\* all_dataframes
RECURSIVE ReadCheckpoints(_, _)
ReadCheckpoints(files, i) ==
    IF files = <<>> THEN <<>>
    ELSE (IF ~Head(files).readable THEN <<>>
          ELSE IF i > 0 THEN << ILocFromOne(Head(files).rows) >>
          ELSE << Head(files).rows >>)
         \o ReadCheckpoints(Tail(files), i + 1)

\* pd.concat(all_dataframes, ignore_index=True)
RECURSIVE Concat(_)
Concat(frames) == IF frames = <<>> THEN <<>> ELSE Head(frames) \o Concat(Tail(frames))

\* drop_duplicates(subset=['match_id'], keep='first')
RECURSIVE drop_duplicates(_)
drop_duplicates(rows) ==
    IF rows = <<>> THEN <<>>
    ELSE LET front == drop_duplicates(SubSeq(rows, 1, Len(rows) - 1))
             last == rows[Len(rows)]
         IN  IF \E i \in 1..Len(front) : front[i] = last THEN front
             ELSE Append(front, last)

\* combine_checkpoints: whether an output was written, and its rows
combine_checkpoints(files) ==
    LET all_dataframes == ReadCheckpoints(files, 0)
    IN  IF files = <<>> \/ all_dataframes = <<>>
        THEN [written |-> FALSE, rows |-> <<>>]
        ELSE [written |-> TRUE, rows |-> drop_duplicates(Concat(all_dataframes))]

NoCombined == [written |-> FALSE, rows |-> <<>>]

\* one run of combine_checkpoints.py
CombineCheckpoints ==
    /\ program = "combine" /\ pc = "idle"
    /\ combined' = combine_checkpoints(checkpoint_files)
    /\ pc' = "exited"
    /\ UNCHANGED <<program, crawlVars, avgVars, rowVars, scoreVars, appendVars,
                   forfeitVars, updUnitVars, launchVars, dispatchVars, cellVars,
                   checkpoint_files>>

(***************************************************************************)
(* Initial states: one of the scripts is about to run in a fresh output    *)
(* directory.                                                              *)
(***************************************************************************)
Programs == {"snapshot", "threshold", "update", "largescale", "unit"}

\* the fields and files every initial state shares
InitRest ==
    /\ pc = "idle"
    /\ runs = 0
    /\ published = 0
    /\ pause_file = FALSE
    /\ snapshot_index = 0
    /\ match_counter = 0
    /\ matches_found = 0
    /\ all_matches = EmptyList
    /\ page_offset = 0
    /\ page_items = <<>>
    /\ page_matches_processed = 0
    /\ returned = EmptyList
    /\ progress_file = NoFile
    /\ intermediate = <<0, EmptyList>>
    /\ json_files = <<>>
    /\ start_index = 0
    /\ taken = EmptyList
    /\ page_requests = EmptyList
    /\ skipped = EmptyList
    /\ listing_requests = <<>>
    /\ examined = <<>>
    /\ floor_hit = FALSE
    /\ saved_args = <<>>
    /\ in_flight = <<>>
    /\ exit_reason = NoReason
    /\ resume = FALSE
    /\ start_match_id = 0
    /\ matches_completed = 0
    /\ current_match_id = 0
    /\ batches_completed = 0
    /\ progress = DefaultProgress
    /\ ls_progress_file = NoFile
    /\ ls_pause_file = FALSE
    /\ session_batches = 0
    /\ seen = {}
    /\ ls_saved_args = <<>>
    /\ u_fetch = 1
    /\ attempt = 0
    /\ elapsed = 0
    /\ gpc_log = <<>>
    /\ gpc_result = "pending"
    /\ u_result = "pending"
    /\ timed_out = FALSE

\* no tool has been given an input
ToolsOff ==
    /\ players = <<>>
    /\ half_up = FALSE
    /\ team_averages = NoAverages
    /\ csv_match = NoMatch
    /\ update_row = EmptyDict
    /\ converter_row = EmptyDict
    /\ result_score = <<>>
    /\ score_results = NoScores
    /\ new_matches = <<>>
    /\ existing_csv = NoFile
    /\ csv_file = NoFile
    /\ append_raised = FALSE
    /\ check_page = "plain"
    /\ forfeit_verdicts = NoVerdicts
    /\ unit_site = DefaultUnitSite
    /\ all_new_matches = <<>>
    /\ unit_calls = NoCalls
    /\ launch_args = NoLaunchArgs
    /\ snapshot_on_disk = "valid"
    /\ dispatch_in = NoDispatch
    /\ dispatch_end = NotEnded
    /\ cell_text = <<>>
    /\ cell_results = NoCells
    /\ checkpoint_files = <<>>
    /\ combined = NoCombined

Init ==
    /\ program \in Programs
    /\ snapshot_file = (program = "snapshot")
    /\ snapshot_len \in (IF program = "snapshot" THEN 1..MaxSnapshotLen ELSE {0})
    /\ num_matches \in (IF program \in {"snapshot", "threshold"}
                        THEN 1..MaxNumMatches ELSE {0})
    /\ listing \in (IF program \in {"threshold", "update"}
                    THEN { ListingOf(scores) : scores \in Listings }
                    ELSE IF program = "largescale"
                    THEN { ListingOf(scores) : scores \in RegularListings }
                    ELSE {<<>>})
    /\ target_match_id \in (IF program \in {"threshold", "update"}
                            THEN 0..Len(listing) ELSE {0})
    /\ u_pc = (IF program = "unit" THEN "get" ELSE "off")
    /\ alarm \in (IF program = "unit" THEN {"off", "armed"} ELSE {"off"})
    /\ InitRest
    /\ ToolsOff
    /\ total_matches_arg \in (IF program = "largescale" THEN TotalMatchesArgs
                              ELSE {total_matches})

Next ==
    \/ create_pause_file
    \/ OperatorRemovesPauseFile
    \/ StartSnapshotRun
    \/ SnapshotLoopExit
    \/ SnapshotPause
    \/ SnapshotIteration
    \/ RunFinish
    \/ SitePublishes
    \/ StartThresholdRun
    \/ ThresholdLoopExit
    \/ ThresholdFetchPage
    \/ ThresholdPause
    \/ ThresholdItem
    \/ ThresholdPageEnd
    \/ StartUpdateRun
    \/ UpdateFetchPage
    \/ UpdateItem
    \/ UpdatePageEnd
    \/ UpdateFinish
    \/ ls_create_pause_file
    \/ OperatorRemovesLsPauseFile
    \/ StartLargeScale
    \/ LsPause
    \/ LsStartBatch
    \/ LsBatchDone
    \/ UnitGet
    \/ UnitAlarmInGet
    \/ UnitRateLimitSleep
    \/ UnitAlarmInRateLimitSleep
    \/ UnitErrorSleep
    \/ UnitAlarmInErrorSleep
    \/ UnitExtract
    \/ UnitAlarmInExtract
    \/ UnitStats
    \/ UnitAlarmInStats

Spec == Init /\ [][Next]_vars

(***************************************************************************)
(* Snapshot runs that no pause signal interrupts, including a request for  *)
(* more than 10,000 valid matches against a snapshot long enough to supply *)
(* them.                                                                   *)
(***************************************************************************)
InitNoPause ==
    /\ program = "snapshot"
    /\ snapshot_file = TRUE
    /\ \/ snapshot_len \in 1..MaxSnapshotLen /\ num_matches \in 1..MaxNumMatches
       \/ snapshot_len = FinalCsvAt + 2 /\ num_matches = FinalCsvAt + 1
    /\ listing = <<>>
    /\ target_match_id = 0
    /\ u_pc = "off"
    /\ alarm = "off"
    /\ InitRest
    /\ ToolsOff
    /\ total_matches_arg = total_matches

NextNoPause ==
    \/ StartSnapshotRun
    \/ SnapshotLoopExit
    \/ SnapshotIteration
    \/ RunFinish

SpecNoPause == InitNoPause /\ [][NextNoPause]_vars

(***************************************************************************)
(* The data tools and pure functions, each applied once to an input drawn  *)
(* from a bounded set.                                                     *)
(***************************************************************************)
ToolPrograms ==
    {"averages", "csvrow", "score", "append", "forfeit", "updateunit", "dispatch",
     "cell", "combine"}

InitTools ==
    /\ program \in ToolPrograms
    /\ snapshot_file = FALSE
    /\ snapshot_len = 0
    /\ num_matches = 0
    /\ listing = <<>>
    /\ target_match_id = 0
    /\ u_pc = "off"
    /\ alarm = "off"
    /\ InitRest
    /\ players \in (IF program = "averages"
                    THEN SeqsUpTo(PlayerRecords, MaxPlayers) ELSE {<<>>})
    /\ half_up \in (IF program = "averages" THEN BOOLEAN ELSE {FALSE})
    /\ team_averages = NoAverages
    /\ csv_match \in (IF program = "csvrow" THEN Matches ELSE {NoMatch})
    /\ update_row = EmptyDict
    /\ converter_row = EmptyDict
    /\ result_score \in (IF program = "score" THEN ScoreTexts
                         ELSE IF program = "forfeit" THEN ForfeitCheckScores
                         ELSE {<<>>})
    /\ score_results = NoScores
    /\ new_matches \in (IF program = "append"
                        THEN SeqsUpTo(NewMatchShapes, MaxNewMatches) ELSE {<<>>})
    /\ existing_csv \in (IF program = "append"
                         THEN {NoFile} \cup { FileOf(f) : f \in ExistingFiles }
                         ELSE {NoFile})
    /\ csv_file = existing_csv
    /\ append_raised = FALSE
    /\ check_page \in (IF program = "forfeit" THEN ForfeitPages ELSE {"plain"})
    /\ forfeit_verdicts = NoVerdicts
    /\ unit_site \in (IF program = "updateunit" THEN UnitSites ELSE {DefaultUnitSite})
    /\ all_new_matches = <<>>
    /\ unit_calls = NoCalls
    /\ launch_args = NoLaunchArgs
    /\ snapshot_on_disk = "valid"
    /\ dispatch_in \in (IF program = "dispatch" THEN DispatchInputs ELSE {NoDispatch})
    /\ dispatch_end = NotEnded
    /\ total_matches_arg = total_matches
    /\ cell_text \in (IF program = "cell" THEN CellTexts ELSE {<<>>})
    /\ cell_results = NoCells
    /\ checkpoint_files \in (IF program = "combine" THEN CheckpointDirs ELSE {<<>>})
    /\ combined = NoCombined

NextTools ==
    \/ CalculateTeamAverages
    \/ ConvertMatch
    \/ ParseScore
    \/ AppendToCsv
    \/ CheckForfeit
    \/ ProcessUpdateUnit
    \/ Dispatch
    \/ ParseCell
    \/ CombineCheckpoints

SpecTools == InitTools /\ [][NextTools]_vars

(***************************************************************************)
(* A launch of run_10k_scraper.py in an output directory that holds no     *)
(* progress file yet, and the launches that follow it.                     *)
(***************************************************************************)
InitLauncher ==
    /\ program = "snapshot"
    /\ pc = "shell"
    /\ snapshot_file = TRUE
    /\ snapshot_len \in 1..MaxSnapshotLen
    /\ num_matches \in 1..MaxNumMatches
    /\ listing = <<>>
    /\ target_match_id = 0
    /\ u_pc = "off"
    /\ alarm = "off"
    /\ runs = 0
    /\ published = 0
    /\ pause_file = FALSE
    /\ snapshot_index = 0
    /\ match_counter = 0
    /\ matches_found = 0
    /\ all_matches = EmptyList
    /\ page_offset = 0
    /\ page_items = <<>>
    /\ page_matches_processed = 0
    /\ returned = EmptyList
    /\ progress_file = NoFile
    /\ intermediate = <<0, EmptyList>>
    /\ json_files = <<>>
    /\ start_index = 0
    /\ taken = EmptyList
    /\ page_requests = EmptyList
    /\ skipped = EmptyList
    /\ listing_requests = <<>>
    /\ examined = <<>>
    /\ floor_hit = FALSE
    /\ saved_args = <<>>
    /\ in_flight = <<>>
    /\ exit_reason = NoReason
    /\ resume = FALSE
    /\ start_match_id = 0
    /\ matches_completed = 0
    /\ current_match_id = 0
    /\ batches_completed = 0
    /\ progress = DefaultProgress
    /\ ls_progress_file = NoFile
    /\ ls_pause_file = FALSE
    /\ session_batches = 0
    /\ seen = {}
    /\ ls_saved_args = <<>>
    /\ u_fetch = 1
    /\ attempt = 0
    /\ elapsed = 0
    /\ gpc_log = <<>>
    /\ gpc_result = "pending"
    /\ u_result = "pending"
    /\ timed_out = FALSE
    /\ players = <<>>
    /\ half_up = FALSE
    /\ team_averages = NoAverages
    /\ csv_match = NoMatch
    /\ update_row = EmptyDict
    /\ converter_row = EmptyDict
    /\ result_score = <<>>
    /\ score_results = NoScores
    /\ new_matches = <<>>
    /\ existing_csv = NoFile
    /\ csv_file = NoFile
    /\ append_raised = FALSE
    /\ check_page = "plain"
    /\ forfeit_verdicts = NoVerdicts
    /\ unit_site = DefaultUnitSite
    /\ all_new_matches = <<>>
    /\ unit_calls = NoCalls
    /\ launch_args = NoLaunchArgs
    /\ snapshot_on_disk \in SnapshotsOnDisk
    /\ dispatch_in = NoDispatch
    /\ dispatch_end = NotEnded
    /\ total_matches_arg = total_matches
    /\ cell_text = <<>>
    /\ cell_results = NoCells
    /\ checkpoint_files = <<>>
    /\ combined = NoCombined

NextLauncher ==
    \/ launcher_run
    \/ StartSnapshotRun
    \/ SnapshotLoopExit
    \/ SnapshotIteration
    \/ RunFinish

SpecLauncher == InitLauncher /\ [][NextLauncher]_vars

(***************************************************************************)
(* Properties.                                                             *)
(***************************************************************************)
\* the checkpoint as a new scraper instance would load it
StoredProgress == load_progress(progress_file, snapshot_file)

\* the current run took exactly the positions start_index, start_index+1, ...
\* one after the other, each advancing snapshot_index by one
TakenInOrder ==
    /\ ListStrictlyIncreasing(taken)
    /\ snapshot_index = start_index + ListLen(taken)
    /\ taken # EmptyList =>
           taken = <<(<<start_index, snapshot_index - 1>>)>>

\* the snapshot loop never runs past its bounds
WithinBounds ==
    /\ matches_found <= num_matches
    /\ matches_found <= FinalCsvAt
    /\ pc = "snapshot_loop" => snapshot_index <= snapshot_len
    /\ taken # EmptyList => ListLast(taken) < snapshot_len

\* C1 (as stated): in snapshot mode positions are taken in strictly
\* increasing order, none twice, and without a pause signal the loop
\* terminates exactly when snapshot_index reaches the snapshot length or
\* the number of valid records reaches num_matches.
C1_Original ==
    /\ TakenInOrder
    /\ WithinBounds
    /\ pc = "returned" =>
           snapshot_index = snapshot_len \/ matches_found = num_matches

\* C1 (amended): as C1, with a third way to terminate: when more than
\* 10,000 matches are requested, the pass begun with 10,000 valid records
\* takes one more position and returns without processing it.
C1_SnapshotTermination ==
    /\ TakenInOrder
    /\ WithinBounds
    /\ pc = "returned" =>
           \/ snapshot_index = snapshot_len
           \/ matches_found = num_matches
           \/ /\ matches_found = FinalCsvAt
              /\ FinalCsvAt < num_matches
              /\ ListCount(skipped, snapshot_index - 1) = 1
              /\ ListCount(page_requests, snapshot_index - 1) = 0

C1_Witness ==
    /\ pc = "returned"
    /\ matches_found = FinalCsvAt
    /\ matches_found < num_matches
    /\ snapshot_index < snapshot_len

\* what a pause check of the enhanced scraper that finds the file does: the
\* loop returns the records collected so far, the stored checkpoint is the
\* current one, no unit is taken, fetched or processed, no counter moves
PauseReturn ==
    /\ pc' = "returned"
    /\ returned' = all_matches
    /\ load_progress(progress_file', snapshot_file)
           = <<match_counter, snapshot_index>>
    /\ match_counter' = match_counter
    /\ snapshot_index' = snapshot_index
    /\ UNCHANGED <<taken, skipped, page_requests, page_items, listing_requests,
                   examined, all_matches, matches_found>>

\* snapshot mode: the check at the head of the while loop
PauseCheckSnapshot ==
    (pc = "snapshot_loop" /\ SnapshotLoopCondition /\ pause_file /\ pc' # pc)
    => PauseReturn

\* threshold mode: the check at the head of the for loop
PauseCheckThreshold ==
    (pc = "threshold_items" /\ page_items # <<>> /\ pause_file)
    => PauseReturn

\* large-scale scraper: the check at the head of the batch loop stores the
\* three locals and returns; no batch is started
PauseCheckLargeScale ==
    (pc = "ls_loop" /\ matches_completed < total_matches /\ ls_pause_file
        /\ pc' # pc)
    => /\ pc' = "exited"
       /\ LET p == ls_load_progress(ls_progress_file')
          IN  <<p["matches_completed"], p["last_match_id"], p["batches_completed"]>>
                  = <<matches_completed, current_match_id, batches_completed>>
       /\ UNCHANGED <<matches_completed, current_match_id, batches_completed,
                      session_batches, seen, match_counter, listing_requests,
                      examined, page_requests, all_matches>>

\* once the loop has returned on a pause, the run fetches and processes
\* nothing more
NoWorkAfterPause ==
    (pc \in {"returned", "exited"} /\ pc' \in {"returned", "exited"}
        /\ exit_reason = "pause")
    => UNCHANGED <<taken, skipped, page_requests, page_items, listing_requests,
                   examined, all_matches, matches_found, match_counter,
                   snapshot_index, returned>>

C3_SkipAdvancesCursor ==
    program = "snapshot" =>
        /\ TakenInOrder
        /\ ListElems(skipped) \subseteq ListElems(taken)
        /\ \A p \in ListElems(taken) : ListCount(page_requests, p) <= 2
        /\ pc = "returned" =>
               /\ StoredProgress[2] = snapshot_index
               /\ StoredProgress[2] = start_index + ListLen(taken)
        /\ ( /\ pc = "returned" /\ snapshot_len = 3 /\ start_index = 0
             /\ ListElems(taken) = {0, 1, 2} /\ ListElems(skipped) = {1} )
           => ListLen(returned) = 2 /\ StoredProgress[2] = 3

C3_Witness ==
    /\ program = "snapshot"
    /\ pc = "returned" /\ snapshot_len = 3 /\ start_index = 0
    /\ ListElems(taken) = {0, 1, 2} /\ ListElems(skipped) = {1}
    /\ ListCount(page_requests, 1) = 1
    /\ StoredProgress[2] = 3

\* identifiers in the record lists written to the output directory
WrittenIds ==
    ListElems(intermediate[2])
        \cup UNION { ListElems(json_files[i]) : i \in 1..Len(json_files) }

\* C4: in threshold mode (update scraper, enhanced scraper) no match with
\* an identifier <= target_match_id becomes a work item (a unit whose pages
\* are requested), enters the list the crawl returns, or is written out.
C4_NothingAtOrBelowFloor ==
    program \in {"threshold", "update", "largescale"} =>
        \A id \in ListElems(page_requests) \cup ListElems(all_matches)
                    \cup ListElems(returned) \cup WrittenIds :
            id > target_match_id

C4_Witness ==
    /\ program = "threshold"
    /\ pc = "exited"
    /\ floor_hit
    /\ target_match_id > 0
    /\ ListLen(returned) > 0
    /\ WrittenIds = ListElems(returned)
    /\ target_match_id + 1 \in WrittenIds

\* C5: in threshold mode, once an item with an identifier <= the floor has
\* been met, the crawl examines no further item and requests no further
\* listing page.
C5_StopsAtFloor ==
    [][(program \in {"threshold", "update"} /\ floor_hit /\ floor_hit')
        => UNCHANGED <<examined, listing_requests>>]_vars

\* C6: every completed batch leaves current_match_id strictly lower than
\* it was before the batch.
C6_CursorDecreases ==
    [][(program = "largescale" /\ pc = "returned" /\ pc' = "ls_loop")
        => current_match_id' < current_match_id]_vars

\* C7: within one call of run_largescale_scraping no identifier is in the
\* results of two batches, and matches_completed of a call that did not
\* resume is the number of distinct matches collected.
C7_BatchesDisjoint ==
    program = "largescale" =>
        /\ pc = "returned" => ListElems(returned) \cap seen = {}
        /\ (pc = "ls_loop" /\ ~resume) => matches_completed = Cardinality(seen)

\* the large-scale checkpoint as run_largescale_scraping reads it on resume:
\* <<matches_completed, last_match_id, batches_completed>>
LsStoredProgress ==
    LET p == ls_load_progress(ls_progress_file)
    IN  <<p["matches_completed"], p["last_match_id"], p["batches_completed"]>>

\* the stored checkpoints decode to the values that were saved last
RoundTripStored ==
    /\ progress_file # NoFile => StoredProgress = saved_args
    /\ ls_progress_file # NoFile => LsStoredProgress = ls_saved_args

\* a fresh instance that finds a checkpoint starts from the saved pair
\* (triple); saving an unchanged state again leaves the stored values
RoundTripStep ==
    /\ (pc \in {"idle", "exited"} /\ pc' \in {"snapshot_loop", "threshold_loop"}
           /\ progress_file # NoFile)
       => <<match_counter', snapshot_index'>> = saved_args
    /\ (pc \in {"idle", "exited"} /\ pc' = "ls_loop" /\ resume'
           /\ ls_progress_file # NoFile)
       => <<matches_completed', current_match_id', batches_completed'>>
              = ls_saved_args
    /\ (progress_file # NoFile /\ saved_args' = saved_args)
       => load_progress(progress_file', snapshot_file) = StoredProgress
    /\ (ls_progress_file # NoFile /\ ls_saved_args' = ls_saved_args)
       => ls_load_progress(ls_progress_file')
              = ls_load_progress(ls_progress_file)

\* C8: a checkpoint save followed by a load in a fresh instance restores
\* the saved (snapshot_index, match_counter) of the enhanced scraper and the
\* saved (last_match_id, matches_completed, batches_completed) of the
\* large-scale scraper; saving the same state twice stores the same values.
C8_CheckpointRoundTrip ==
    [][RoundTripStored /\ RoundTripStored' /\ RoundTripStep]_vars

C8_Witness ==
    /\ program = "largescale"
    /\ runs = 2 /\ resume /\ pc = "ls_loop"
    /\ ls_progress_file # NoFile
    /\ matches_completed > 0
    /\ current_match_id > 0
    /\ <<matches_completed, current_match_id, batches_completed>> = ls_saved_args

\* C9: when the alarm goes off during a unit, process_match_with_timeout
\* returns None, wherever in the unit it went off.
C9_TimeoutAbandonsUnit ==
    (program = "unit" /\ timed_out /\ u_pc = "done") => u_result = "None"

\* the attempts of a finished get_page_content call
Attempts == 1..Len(gpc_log)
Failed(i) == gpc_log[i].response \in {"error", "alarm"}
Finished == program = "unit" /\ gpc_result # "pending"

PresentValues(stat) ==
    { i \in 1..Len(players) :
        /\ players[i].statistics_key = "dict"
        /\ players[i].statistics[stat] \notin {Missing, None} }

PresentTotal(stat) ==
    SumOf([i \in 1..Len(players) |->
             IF i \in PresentValues(stat) THEN players[i].statistics[stat] ELSE 0])

\* r is the mean of the present values of stat, to the nearest hundredth
IsRoundedMean(r, stat) ==
    LET n == Cardinality(PresentValues(stat))
        d == r * n - PresentTotal(stat)
    IN  /\ r # None
        /\ 2 * d <= n /\ 2 * (0 - d) <= n

\* C11: for every list of player records and each of the five metrics,
\* calculate_team_averages returns the mean of exactly the values present for
\* that metric, rounded to two decimals, returns None if and only if no
\* player has a value for it (never 0 in its place), and the aggregator's,
\* the update scraper's and the enhanced scraper's copies return the same.
C11_TeamAverages ==
    (program = "averages" /\ pc = "exited") =>
        /\ \A stat \in StatKeys :
             IF PresentValues(stat) = {}
             THEN team_averages.aggregator[stat] = None
             ELSE IsRoundedMean(team_averages.aggregator[stat], stat)
        /\ team_averages.update = team_averages.aggregator
        /\ team_averages.enhanced = team_averages.aggregator

\* two players, one without a DPR value: the DPR average is the other's value
\* alone, one metric averages to 0 and another is unknown
C11_Witness ==
    /\ program = "averages" /\ pc = "exited"
    /\ Len(players) = 2
    /\ Cardinality(PresentValues("DPR")) = 1
    /\ team_averages.enhanced["DPR"] = 1
    /\ \E stat \in StatKeys :
         PresentValues(stat) # {} /\ team_averages.update[stat] = 0
    /\ \E stat \in StatKeys : team_averages.aggregator[stat] = None

\* the slots of a team for which the match lists no player
MissingSlots(team) ==
    { n \in 1..RosterSlots : n > Len(TeamData(team).players) }

\* a row is as the headers declare: their keys, each once, and the slots
\* without a player hold the placeholder name and no statistics
RowAsDeclared(row, headers) ==
    /\ Len(headers) = 84
    /\ Cardinality(DictKeys(row)) = 84
    /\ DictKeys(row) = { headers[i] : i \in 1..Len(headers) }
    /\ \A t \in {"team1", "team2"} :
         \A n \in MissingSlots(csv_match[t]) :
            /\ DictValue(row, PlayerKey(t, n, "name")) = PlaceholderName(n)
            /\ \A stat \in StatKeys : DictValue(row, PlayerKey(t, n, stat)) = None

\* the match with every player after the fifth removed
FirstFive(match) ==
    LET cut(team) == [team EXCEPT !.players =
                         SubSeq(team.players, 1,
                                IF Len(team.players) > RosterSlots
                                THEN RosterSlots ELSE Len(team.players))]
    IN  [match EXCEPT !.team1 = cut(match.team1), !.team2 = cut(match.team2)]

\* C12: every row convert_match_to_csv_row and convert_match_to_row build
\* has exactly the keys of get_csv_headers, 84 columns, whatever the number
\* of players found per team: a slot without a player holds the name
\* Player_n and empty statistics, and players after the fifth change nothing.
C12_RowHasDeclaredColumns ==
    (program = "csvrow" /\ pc = "exited") =>
        /\ RowAsDeclared(update_row, get_csv_headers)
        /\ RowAsDeclared(converter_row, converter_get_csv_headers)
        /\ update_row = convert_match_to_csv_row(FirstFive(csv_match))
        /\ converter_row = convert_match_to_row(FirstFive(csv_match))

\* a row built for a match with six players in one team and two in the other
C12_Witness ==
    /\ program = "csvrow" /\ pc = "exited"
    /\ csv_match.team1.team_key /\ Len(csv_match.team1.players) = 6
    /\ csv_match.team2.team_key /\ Len(csv_match.team2.players) = 2
    /\ DictValue(update_row, "team2_player_3_name") = "Player_3"
    /\ DictValue(converter_row, "team1_player_5_name") # "Player_5"

\* t is a non-empty run of digits
IsNumber(t) == Len(t) > 0 /\ \A i \in 1..Len(t) : IsDigit(t[i])

\* the places where text reads <int> sep <int>
FormSplits(text, sep) ==
    { i \in 1..Len(text) :
        /\ OccursAt(text, sep, i)
        /\ IsNumber(SubSeq(text, 1, i - 1))
        /\ IsNumber(SubSeq(text, i + Len(sep), Len(text))) }

\* the integer pair a text of the form <int> sep <int> spells
FormPair(text, sep) ==
    LET i == CHOOSE j \in FormSplits(text, sep) : TRUE
    IN  << TextToNat(SubSeq(text, 1, i - 1)),
           TextToNat(SubSeq(text, i + Len(sep), Len(text))) >>

\* what the three parsers are to make of a score text
ExpectedScore(text) ==
    IF FormSplits(text, <<" ", "-", " ">>) # {}
    THEN LET pair == FormPair(text, <<" ", "-", " ">>)
         IN  <<pair[1], pair[2], Winner(pair[1], pair[2])>>
    ELSE IF FormSplits(text, <<":">>) # {}
    THEN LET pair == FormPair(text, <<":">>)
         IN  <<pair[1], pair[2], Winner(pair[1], pair[2])>>
    ELSE <<>>

\* C13: from every score text of the form "<int> - <int>" or "<int>:<int>"
\* each scraper extracts exactly that pair of integers and derives the
\* winner from it (team1, team2 or tie); every other text yields no winner.
C13_ScorePairAndWinner ==
    (program = "score" /\ pc = "exited") =>
        \A k \in {"enhanced", "update", "snapshot"} :
            score_results[k] = ExpectedScore(result_score)

\* the data row a new match is to become under a header
NewRow(header, match) ==
    dict_to_list(header, BuiltRow(convert_match_to_csv_row(match)))

\* C14: append_to_csv with a non-empty list of new matches on an existing CSV
\* leaves a file with the existing header and, as data rows, the new rows in
\* scrape order followed by the existing rows in their order with their
\* field values; with an empty list the file is left untouched.
C14_AppendKeepsTheFile ==
    (program = "append" /\ pc = "exited" /\ existing_csv # NoFile) =>
        IF new_matches = <<>>
        THEN csv_file = existing_csv
        ELSE /\ csv_file # NoFile
             /\ csv_file[1].header = existing_csv[1].header
             /\ csv_file[1].rows =
                  [i \in 1..Len(new_matches) |->
                     NewRow(existing_csv[1].header, new_matches[i])]
                  \o existing_csv[1].rows

\* a listing page the crawl asked for was not served
ListingPageFailed == exit_reason = "no_page" /\ Page(page_offset) # <<>>

\* the listing items newer than the target whose score text parses and is
\* not of the forfeit shape: valid wherever the site serves their pages
NewAndWellFormed ==
    { i \in 1..Len(listing) :
        /\ listing[i][1] > target_match_id
        /\ update_extract_match_info(listing[i], target_match_id) # <<>>
        /\ listing[i][2] \notin ForfeitScores }

\* C15: scrape_new_matches returns every valid match of the listing whose
\* identifier is greater than target_match_id, whatever precedes it on the
\* listing: when the crawl has returned, each such match has been examined
\* (a match never examined is not in the result, however valid).
C15_AllNewMatchesReturned ==
    (program = "update" /\ pc \in {"returned", "exited"} /\ ~ListingPageFailed) =>
        \A i \in NewAndWellFormed :
            \E n \in 1..Len(examined) : examined[n] = listing[i][1]

\* the recorded score is 1-0 or 0-1, however the text spaces it
OneNilScore(text) == RemoveSpaces(text) \in { <<"1", "-", "0">>, <<"0", "-", "1">> }

\* C16: a match is skipped as a forfeit only if its recorded score is 1-0 or
\* 0-1 and the match page fetched for the check contains the word 'forfeit';
\* a 1-0 or 0-1 match whose page lacks the word, or could not be loaded, is
\* not classified as a forfeit.
C16_ForfeitNeedsThePage ==
    (program = "forfeit" /\ pc = "exited") =>
        \A k \in {"enhanced", "update", "snapshot"} :
            forfeit_verdicts[k] => (OneNilScore(result_score) /\ check_page = "forfeit")

\* a 1-0 match whose page says forfeit: skipped by all three checks
C16_Witness ==
    /\ program = "forfeit" /\ pc = "exited"
    /\ OneNilScore(result_score)
    /\ check_page = "forfeit"
    /\ \A k \in {"enhanced", "update", "snapshot"} : forfeit_verdicts[k]

\* a player of a record carries a statistics dict with all five keys
HasStatistics(player) ==
    /\ player.statistics_key = "dict"
    /\ \A k \in StatKeys : player.statistics[k] # Missing

\* the team of a record: the whole roster, every player with statistics, and
\* the averages of those statistics
CompleteTeam(team, roster) ==
    /\ Len(team.players) = roster
    /\ roster >= 5
    /\ \A i \in 1..roster : HasStatistics(team.players[i])
    /\ \A k \in StatKeys :
         team.team_averages[k] =
            (IF \A i \in 1..roster : team.players[i].statistics[k] = None
             THEN None
             ELSE team.players[1].statistics[k])

\* C17: the update scraper appends a record for a match only after both team
\* URLs were found, both rosters have at least five players, and the
\* statistics of every player and the averages of both teams were attempted;
\* a match with a missing team URL or a roster under five leaves no record.
C17_NoPartialRecord ==
    (program = "updateunit" /\ pc = "exited") =>
        /\ Len(all_new_matches) <= 1
        /\ Len(all_new_matches) = 1 =>
             /\ unit_site.team1_url /\ unit_site.team2_url
             /\ CompleteTeam(all_new_matches[1].team1, unit_site.roster1)
             /\ CompleteTeam(all_new_matches[1].team2, unit_site.roster2)
             /\ unit_calls.player_stats = unit_site.roster1 + unit_site.roster2
             /\ unit_calls.averages = 2
        /\ (~unit_site.team1_url \/ ~unit_site.team2_url
            \/ unit_site.roster1 < 5 \/ unit_site.roster2 < 5) =>
             all_new_matches = <<>>

\* a record was appended for a match whose statistics pages did not load
C17_Witness ==
    /\ program = "updateunit" /\ pc = "exited"
    /\ Len(all_new_matches) = 1
    /\ unit_site.roster1 = 5 /\ unit_site.roster2 > 5
    /\ unit_site.stats_pages = "failed"

\* C18: run_10k_scraper.py without --resume starts a fresh session: the
\* enhanced scraper it runs begins at snapshot index 0 with match counter 0;
\* only a launch with --resume continues from the saved progress file.
C18_FreshStartWithoutResume ==
    [][(pc = "idle" /\ pc' = "snapshot_loop" /\ ~launch_args.resume)
          => (snapshot_index' = 0 /\ match_counter' = 0)]_vars

\* a launch without --resume whose scraper begins where the progress file
\* of the session before left off
C18_NotFresh ==
    /\ pc = "snapshot_loop"
    /\ ~launch_args.resume
    /\ runs = 2
    /\ start_index > 0
    /\ taken = EmptyList

\* a step in which a pause sentinel that exists is deleted
SentinelDeleted ==
    \/ pause_file /\ ~pause_file'
    \/ ls_pause_file /\ ~ls_pause_file'

\* a step of the operator, not of a scraper
OperatorStep == pc' = pc /\ runs' = runs

\* the large-scale scraper enters its loop without --resume
FreshLargeScaleStart ==
    /\ program = "largescale"
    /\ pc \in {"idle", "exited"} /\ pc' = "ls_loop"
    /\ ~resume'

\* C19 as stated: no crawl operation deletes the pause sentinel; once
\* created it stays through every start, pause and resume of the enhanced
\* and the large-scale scraper until an operator removes it.
C19_Original == [][SentinelDeleted => OperatorStep]_vars

\* C19: the sentinel of the enhanced scraper is deleted by the operator
\* only, and so is that of the large-scale scraper through every pause
\* and resume; the one crawl operation that deletes a sentinel is a start
\* of the large-scale scraper without --resume, which removes its pause
\* file before the loop.
C19_OnlyFreshStartClears ==
    [][SentinelDeleted =>
          \/ OperatorStep
          \/ FreshLargeScaleStart /\ pause_file' = pause_file]_vars

\* the large-scale scraper was paused and resumed, and its sentinel is
\* still there
C19_Witness ==
    /\ program = "largescale" /\ pc = "ls_loop"
    /\ runs = 2 /\ resume
    /\ ls_saved_args # <<>>
    /\ ls_pause_file

\* the required flag of the selected subcommand is missing
RequiredFlagMissing(in) ==
    \/ in.scraper \in {"aggregate", "csv"} /\ in.input = "absent"
    \/ in.scraper = "update" /\ in.target_match_id = "absent"

\* the selected operation was started and ran through
OperationCompletes(in) ==
    \/ in.scraper \in {"blast", "test"} /\ in.operation = "completes"
    \/ /\ in.scraper \in {"aggregate", "csv"}
       /\ in.input = "given" /\ in.file = "valid" /\ in.output = "writable"
    \/ /\ in.scraper = "update"
       /\ in.target_match_id = "id" /\ in.operation = "completes"

\* the aggregator or the converter is given a file it cannot read or parse
BadInputFile(in) ==
    /\ in.scraper \in {"aggregate", "csv"}
    /\ in.input = "given"
    /\ in.file \in {"missing", "unreadable", "not_utf8", "invalid_json"}

\* C20: the dispatcher exits with 1 without starting the operation when the
\* required flag of the subcommand is missing, with 0 when the selected
\* operation completes, and the aggregator and the converter exit with 1
\* on an input file that is unreadable or not valid JSON.
C20_DispatcherExitCodes ==
    (program = "dispatch" /\ pc = "exited") =>
        /\ RequiredFlagMissing(dispatch_in) =>
             (dispatch_end.exit_code = 1 /\ ~dispatch_end.started)
        /\ OperationCompletes(dispatch_in) => dispatch_end.exit_code = 0
        /\ BadInputFile(dispatch_in) => dispatch_end.exit_code = 1

\* the converter was started on a file that is not valid JSON and exited
\* through sys.exit(1)
C20_Witness ==
    /\ program = "dispatch" /\ pc = "exited"
    /\ dispatch_in.scraper = "csv"
    /\ dispatch_in.input = "given"
    /\ dispatch_in.file = "invalid_json"
    /\ dispatch_end = Ended(1, TRUE, "sys.exit")

\* the crawl loop of the enhanced scraper is running or has returned
InEnhancedCrawl ==
    /\ program \in {"snapshot", "threshold"}
    /\ pc \in {"snapshot_loop", "threshold_loop", "threshold_items", "returned"}

\* C21: scrape_enhanced_matches returns at most num_matches records in
\* threshold and in snapshot mode, and once num_matches valid records are
\* collected it processes no further item: no snapshot position is taken, no
\* listing item examined, no listing or match page requested.
C21_AtMostNumMatches ==
    [][InEnhancedCrawl =>
          /\ ListLen(all_matches') <= num_matches
          /\ ListLen(returned') <= num_matches
          /\ matches_found >= num_matches =>
               /\ taken' = taken
               /\ examined' = examined
               /\ page_requests' = page_requests
               /\ listing_requests' = listing_requests]_vars

\* a threshold crawl returned num_matches records and left listing items
\* of the page unexamined
C21_Witness ==
    /\ program = "threshold" /\ pc = "returned"
    /\ ListLen(returned) = num_matches
    /\ num_matches >= 2
    /\ Len(examined) < Len(listing)
    /\ exit_reason = "loop_end"

\* min(a, b)
MinOf(a, b) == IF a < b THEN a ELSE b

\* C22: the large-scale scraper started with --total_matches T scrapes at
\* most T matches: matches_completed never exceeds T, and every batch asks
\* for min(batch_size, T - matches_completed) matches.
C22_AtMostTotalMatches ==
    program = "largescale" =>
        /\ matches_completed <= total_matches_arg
        /\ pc \in {"threshold_loop", "threshold_items"} =>
             num_matches = MinOf(batch_size, total_matches_arg - matches_completed)

\* one or more digits
AllDigits(t) == Len(t) > 0 /\ \A i \in 1..Len(t) : t[i] \in Digits

\* an integer N as written: digits, possibly after a minus sign
IntegerText(t) ==
    \/ AllDigits(t)
    \/ Len(t) > 1 /\ t[1] = "-" /\ AllDigits(Tail(t))

\* the number an IntegerText stands for
IntegerValue(t) == IF t[1] = "-" THEN 0 - TextToNat(Tail(t)) ELSE TextToNat(t)

\* the digits of t, in order
RECURSIVE DigitsOf(_)
DigitsOf(t) ==
    IF Len(t) = 0 THEN <<>>
    ELSE (IF t[1] \in Digits THEN <<t[1]>> ELSE <<>>) \o DigitsOf(Tail(t))

\* a number written with thousands separators: digits and commas, a digit first
ThousandsText(t) ==
    /\ Len(t) > 0 /\ t[1] \in Digits
    /\ \A i \in 1..Len(t) : t[i] \in Digits \cup {","}

\* '-' or empty text, blanks aside
DashOrEmpty(t) == Strip(t) = <<>> \/ Strip(t) = <<"-">>

\* the text c is 'N(M)' with the '(' at index j: an integer N, then M of
\* digits and dashes in parentheses
ParentheticalAt(c, j) ==
    /\ 1 < j /\ j + 1 < Len(c)
    /\ c[j] = "(" /\ c[Len(c)] = ")"
    /\ IntegerText(SubSeq(c, 1, j - 1))
    /\ \A i \in (j + 1)..(Len(c) - 1) : c[i] \in Digits \cup {"-"}

\* the text is 'N(M)', blanks aside
ParentheticalText(t) ==
    \E j \in 1..Len(RemoveSpaces(t)) : ParentheticalAt(RemoveSpaces(t), j)

\* the text begins with 'N(M)', blanks aside
BeginsParenthetical(t) ==
    \E n \in 1..Len(RemoveSpaces(t)) : ParentheticalText(SubSeq(RemoveSpaces(t), 1, n))

\* N of a text that begins with 'N(M)'
PrimaryOf(t) ==
    LET c == RemoveSpaces(t)
        j == CHOOSE i \in 1..Len(c) :
                 c[i] = "(" /\ \A k \in 1..(i - 1) : c[k] # "("
    IN  IntegerValue(SubSeq(c, 1, j - 1))

\* a percentage: digits and a percent sign, possibly after a sign
PercentText(t) ==
    /\ Len(t) > 1 /\ t[Len(t)] = "%"
    /\ \/ AllDigits(SubSeq(t, 1, Len(t) - 1))
       \/ /\ t[1] \in {"+", "-"}
          /\ AllDigits(SubSeq(t, 2, Len(t) - 1))

PercentValue(t) ==
    IF t[1] = "-" THEN 0 - TextToNat(DigitsOf(t)) ELSE TextToNat(DigitsOf(t))

\* what the claim says of safe_int and parse_percentage_value, and that no
\* parser raises
SafeIntAndPercentage ==
    /\ \A k \in DOMAIN cell_results : ~cell_results[k].raised
    /\ ThousandsText(cell_text) =>
         cell_results["safe_int"] = NumberResult(TextToNat(DigitsOf(cell_text)))
    /\ DashOrEmpty(cell_text) =>
         /\ cell_results["safe_int"] = NoneResult
         /\ cell_results["percentage"] = NoneResult
    /\ PercentText(cell_text) =>
         cell_results["percentage"] = NumberResult(PercentValue(cell_text))

\* C23 as stated: safe_int strips thousands separators and gives None for
\* '-' or empty text; parse_parenthetical_primary gives N for the text
\* 'N(M)' and otherwise what safe_int gives; parse_percentage_value strips
\* the percent sign, keeps the sign, and gives None for '-' or empty text;
\* none of them raises.
C23_Original ==
    (program = "cell" /\ pc = "exited") =>
        /\ SafeIntAndPercentage
        /\ ParentheticalText(cell_text) =>
             cell_results["parenthetical"] = NumberResult(PrimaryOf(cell_text))
        /\ ~ParentheticalText(cell_text) =>
             cell_results["parenthetical"] = cell_results["safe_int"]

\* C23: as above, with parse_parenthetical_primary giving N for every text
\* that begins with 'N(M)', blanks aside, whatever follows the closing
\* parenthesis, and what safe_int gives for every other text.
C23_CellParsers ==
    (program = "cell" /\ pc = "exited") =>
        /\ SafeIntAndPercentage
        /\ BeginsParenthetical(cell_text) =>
             cell_results["parenthetical"] = NumberResult(PrimaryOf(cell_text))
        /\ ~BeginsParenthetical(cell_text) =>
             cell_results["parenthetical"] = cell_results["safe_int"]

\* a parenthetical value followed by more text: the primary number is
\* returned where safe_int gives None
C23_Witness ==
    /\ program = "cell" /\ pc = "exited"
    /\ cell_text = <<"1", "(", "1", ")", "%">>
    /\ cell_results["parenthetical"] = NumberResult(1)
    /\ cell_results["safe_int"] = NoneResult


(***************************************************************************)
(* C24: the combined dataset                                               *)
(***************************************************************************)
\* the match ids of the data rows of the readable checkpoint files
IdsInCheckpoints ==
    UNION { { checkpoint_files[f].rows[r] : r \in 1..Len(checkpoint_files[f].rows) } :
              f \in { g \in 1..Len(checkpoint_files) : checkpoint_files[g].readable } }

\* the match ids of the rows of the combined dataset
IdsCombined == { combined.rows[r] : r \in 1..Len(combined.rows) }

\* no match id on two rows of the combined dataset
OneRowPerId ==
    \A a, b \in 1..Len(combined.rows) : combined.rows[a] = combined.rows[b] => a = b

\* C24: once combine_checkpoints.py has run, the combined dataset holds
\* exactly one row for every distinct match id that is a data row of a
\* readable checkpoint file: no data row is lost other than as a duplicate.
C24_OneRowPerDistinctId ==
    (program = "combine" /\ pc = "exited") =>
        /\ OneRowPerId
        /\ IdsCombined = IdsInCheckpoints

\* two readable files, the later one opening with a match id of its own
C24_Witness ==
    /\ program = "combine" /\ pc = "exited"
    /\ Len(checkpoint_files) = 2
    /\ checkpoint_files[1] = [readable |-> TRUE, rows |-> <<1>>]
    /\ checkpoint_files[2] = [readable |-> TRUE, rows |-> <<2, 1>>]
    /\ combined.written


(***************************************************************************)
(* C25, C26: what a checkpoint of the snapshot loop vouches for            *)
(***************************************************************************)
\* C25: whenever scraper_progress.json is written in snapshot mode, every
\* snapshot entry below the snapshot_index written has finished processing:
\* no entry already counted in the index was still waiting for its unit.
C25_CheckpointCoversFinishedEntries ==
    program = "snapshot" => in_flight = <<>>

\* the periodic save of the tenth unit has been written and the loop runs on
C25_Witness ==
    /\ program = "snapshot" /\ pc = "snapshot_loop"
    /\ progress_file # NoFile
    /\ saved_args = <<ProgressEvery, ProgressEvery>>
    /\ snapshot_index = ProgressEvery

\* the positions lo..hi are all in the list
ListCovers(l, lo, hi) ==
    lo > hi \/ \E j \in 1..Len(l) : l[j][1] <= lo /\ hi <= l[j][2]

\* the records at the positions lo..hi are in an output file on disk
OnDisk(lo, hi) ==
    \/ ListCovers(intermediate[2], lo, hi)
    \/ \E f \in 1..Len(json_files) : ListCovers(json_files[f], lo, hi)

\* C26: whenever the checkpoint on disk holds snapshot_index k, every valid
\* record the run built from the entries below k is in an output file on
\* disk.
C26_RecordsBelowCheckpointOnDisk ==
    (program = "snapshot" /\ progress_file # NoFile) =>
        \A i \in 1..Len(all_matches) :
            OnDisk(all_matches[i][1],
                   MinOf(all_matches[i][2], StoredProgress[2] - 1))

\* a checkpoint on disk with a record built below its index
C26_Witness ==
    /\ program = "snapshot" /\ progress_file # NoFile
    /\ ListLen(all_matches) > 0
    /\ all_matches[1][1] < StoredProgress[2]


(***************************************************************************)
(* C27: the requested count across a pause and its resumes                 *)
(***************************************************************************)
\* the snapshot positions of the valid records collected by all runs so
\* far: those written by run() and those of the run in progress
CollectedOverAllRuns ==
    UNION { ListElems(json_files[f]) : f \in 1..Len(json_files) }
    \cup ListElems(all_matches)

\* every earlier run ended (on a pause) before it had its num_matches records
EarlierRunsCutShort ==
    \A f \in 1..Len(json_files) : ListLen(json_files[f]) < num_matches

\* C27: across a pause and the resumes of a snapshot-mode crawl with the
\* same num_matches and snapshot, the valid records collected by all runs
\* together are at most num_matches.
C27_TotalAtMostNumMatches ==
    (program = "snapshot" /\ EarlierRunsCutShort)
        => Cardinality(CollectedOverAllRuns) <= num_matches

\* a resumed run, after a paused one that had collected records, has
\* collected some of its own
C27_Witness ==
    /\ program = "snapshot" /\ runs = 2
    /\ Len(json_files) = 1 /\ ListLen(json_files[1]) > 0
    /\ ListLen(all_matches) > 0


(***************************************************************************)
(* C28: the forfeit check of the listing crawls                            *)
(***************************************************************************)
\* extract_match_info of the enhanced scraper returns a record for a
\* listing item newer than the target that shows this score text
Accepts(text) == extract_match_info(<<1, text>>, 0) # <<>>

\* the same for the update scraper
UpdateAccepts(text) == update_extract_match_info(<<1, text>>, 0) # <<>>

\* the item in hand is skipped as a forfeit by this step of a listing crawl
SkippedAsForfeit ==
    /\ \/ program \in {"threshold", "largescale"} /\ pc = "threshold_items"
       \/ program = "update" /\ pc = "update_items"
    /\ page_items # <<>>
    /\ examined' # examined
    /\ LET item == Head(page_items)
       IN  IF program = "update"
           THEN /\ update_extract_match_info(item, target_match_id) # <<>>
                /\ update_is_match_forfeited(item[2], "forfeit")[1]
           ELSE /\ extract_match_info(item, target_match_id) # <<>>
                /\ is_match_forfeited(item[2], "forfeit")[1]

C28_NoForfeitSkipInListingCrawl == [][~SkippedAsForfeit]_vars

====
